---------------------------- MODULE Spec2Model ----------------------------
(***************************************************************************)
(* Model of the offline support of rusty_pet: the operation queue          *)
(* (src/src/offline_queue.rs), the cache (src/src/cache.rs) and the        *)
(* OfflineManager that composes them with the remote API                   *)
(* (src/src/offline_manager.rs).                                           *)
(*                                                                         *)
(* The queue keeps no state in memory: every operation of OperationQueue   *)
(* loads the queue file, computes a new list and writes the file back.     *)
(* The state of the queue is therefore the queue file, the two sources of  *)
(* fresh values QueuedOperationEntry::new reads (Uuid::new_v4 and          *)
(* Utc::now), and a record of the last call made on the queue (what it     *)
(* loaded, what the executor answered, what it returned).                  *)
(*                                                                         *)
(* The cache is one file per key, holding the data with the time it was    *)
(* cached and the time it expires; its state is the files, the time        *)
(* Utc::now returns and the TTL the CacheManager was built with.           *)
(*                                                                         *)
(* The remote API is an input of the OfflineManager calls: each remote     *)
(* call answers Ok or one of the errors reqwest can return.                *)
(*                                                                         *)
(* Specifications:                                                         *)
(*   Spec       the calls of OperationQueue, with any executor;            *)
(*   SpecCache  the calls of CacheManager and the reads of OfflineManager; *)
(*   SpecWrite  the single writes of OfflineManager;                       *)
(*   SpecBatch  the single and the batch writes of OfflineManager;         *)
(*   SpecSync   single writes and OfflineManager::synchronize_when_online; *)
(*   SpecReplay enqueue calls followed by synchronize calls, counted;      *)
(*   SpecCrash  one process, enqueue and synchronize step by step, where   *)
(*              the process can stop inside a call;                        *)
(*   SpecRace   two processes on the same queue file, step by step;        *)
(*   SpecStore  the calls of CacheManager on the cache directory, on       *)
(*              storage that can refuse a read or a write;                 *)
(*   SpecStale  writes of the location of one pet and reconciliations,     *)
(*              with the writes the remote API applies;                    *)
(*   SpecBatchReplay  batch writes and reconciliations.                    *)
(*                                                                         *)
(* Environment assumptions of all of them:                                 *)
(*  - except in SpecCrash and SpecRace, one process and calls made one     *)
(*    after the other (each call runs to completion before the next        *)
(*    starts);                                                             *)
(*  - async_fs::read_to_string and async_fs::write do not fail (except on  *)
(*    the cache files in SpecStore), so the only error the queue can       *)
(*    return is the parse error of load_queue;                             *)
(*  - Uuid::new_v4 never returns a value it returned before;               *)
(*  - successive reads of Utc::now return values that do not decrease.     *)
(***************************************************************************)
EXTENDS Integers, Sequences, FiniteSets, TLC

VARIABLES
    queue_file,   \* content of the file at OperationQueue.queue_file
    next_uuid,    \* the next value Uuid::new_v4 returns
    clock,        \* the next value Utc::now returns to enqueue
    attempts,     \* attempts[i]: executor calls made so far for the i-th
                  \* entry of the queue file (history)
    last,         \* the last call on the queue and what it returned
    cache,        \* cache[key]: content of the cache file of that key
    utc_now,      \* the value Utc::now returns to the cache
    ttl,          \* CacheManager.ttl
    mlast,        \* the last call on the CacheManager or the OfflineManager
    procs,        \* procs[p]: where process p is in its call on the queue,
                  \* and the locals of the call
    syncs,        \* synchronize calls counted (history): in SpecReplay
                  \* those completed since the last enqueue, in SpecRace
                  \* those started
    remote_location \* remote_location[pet_id]: the writes the remote API
                  \* applied to the location of the pet, oldest first, each
                  \* as <<location, id of the queue entry replayed, or 0
                  \* for a direct write>> (history, kept in SpecStale and
                  \* SpecBatchReplay)

\* The state of the queue, of the cache, of what only some specifications
\* move, and all of it.
queue_vars == <<queue_file, next_uuid, clock, attempts, last>>
cache_vars == <<cache, utc_now, ttl>>
rest_vars == <<procs, syncs, remote_location>>
vars == <<queue_file, next_uuid, clock, attempts, last, cache, utc_now, ttl,
         mlast, procs, syncs, remote_location>>

---------------------------------------------------------------------------
\* Bounds of the model.

\* Number of enqueue calls in a behaviour (caps next_uuid).
MaxEnqueues == 3

\* Ids Uuid::new_v4 can return within the bound.
Ids == 1..MaxEnqueues

\* The pets the writes are about.
PetIds == {1, 2}

\* The processes (runs of the CLI) that use the same queue file.
Procs == {1, 2}

---------------------------------------------------------------------------
\* Program constants.

LOCATION_INSIDE == 1
LOCATION_OUTSIDE == 2
LOCK_STATE_UNLOCKED == 0
LOCK_STATE_LOCKED == 3

\* max_retries given to every new entry.
DEFAULT_MAX_RETRIES == 3

---------------------------------------------------------------------------
\* QueuedOperation: the operations given to enqueue.

SetPetLocation(pet_id, location) ==
    [pet_id |-> pet_id, location |-> location, kind |-> "SetPetLocation"]

SetDeviceLockState(device_id, lock_state) ==
    [kind |-> "SetDeviceLockState", device_id |-> device_id,
     lock_state |-> lock_state]

\* The items of a batch: PetLocationUpdate, and DeviceCommand with the
\* command type SetLockState.
PetLocationUpdate(pet_id, location) ==
    [pet_id |-> pet_id, location |-> location]

SetLockState(lock_state) == [lock_state |-> lock_state, tag |-> "SetLockState"]

DeviceCommand(device_id, command_type) ==
    [device_id |-> device_id, command_type |-> command_type]

BatchSetPetLocations(updates) ==
    [kind |-> "BatchSetPetLocations", updates |-> updates]

BatchDeviceControl(commands) ==
    [kind |-> "BatchDeviceControl", commands |-> commands]

\* The operations the model enqueues: one for a pet, one for a device.
QueuedOperation ==
    { SetPetLocation(1, LOCATION_INSIDE),
      SetDeviceLockState(5, LOCK_STATE_LOCKED) }

\* OperationResult, without the error message.
OperationResult == {"Success", "Retry", "Fail"}

---------------------------------------------------------------------------
\* QueuedOperationEntry.

\* Fault variant of QueuedOperationEntry::new: the counter starts at 1.
QueuedOperationEntry_new_retried(operation, uuid, now) ==
    [operation |-> operation,
     id |-> uuid,
     queued_at |-> now,
     retry_count |-> 1,
     max_retries |-> 3]

QueuedOperationEntry_new(operation, uuid, now) ==
    [operation |-> operation,
     id |-> uuid,
     queued_at |-> now,
     retry_count |-> 0,
     max_retries |-> DEFAULT_MAX_RETRIES]

\* Fault variant of can_retry: gives up one retry early.
can_retry_early(entry) == entry.retry_count + 1 < entry.max_retries

\* Fault variant of can_retry: allows one retry too many.
can_retry_late(entry) == entry.retry_count <= entry.max_retries

can_retry(entry) == entry.retry_count < entry.max_retries

\* Fault variant of increment_retry: the increment is lost.
increment_retry_lost(entry) == entry

\* retry_count is a u32; it is incremented only below max_retries (see
\* SyncEntry), far from the width of the type.
increment_retry(entry) ==
    [entry EXCEPT !.retry_count = entry.retry_count + 1]

---------------------------------------------------------------------------
\* The queue file.  serde_json writes an entry as an object whose
\* "operation" member is the externally tagged enum:
\*   {"id": .., "operation": {"SetPetLocation": {"pet_id": 1, ..}}, ..}

\* A batch is written as the array of its items, a DeviceCommand with its
\* command type as an externally tagged enum in turn.
PetLocationUpdateToJson(update) ==
    [pet_id |-> update.pet_id, location |-> update.location]

PetLocationUpdateFromJson(json) ==
    PetLocationUpdate(json.pet_id, json.location)

DeviceCommandToJson(command) ==
    [device_id |-> command.device_id,
     command_type |->
         [tag |-> command.command_type.tag,
          body |-> [lock_state |-> command.command_type.lock_state]]]

DeviceCommandFromJson(json) ==
    DeviceCommand(json.device_id, SetLockState(json.command_type.body.lock_state))

OperationToJson(operation) ==
    CASE operation.kind = "SetPetLocation" ->
            [tag |-> "SetPetLocation",
             body |-> [pet_id |-> operation.pet_id,
                       location |-> operation.location]]
      [] operation.kind = "BatchSetPetLocations" ->
            [tag |-> "BatchSetPetLocations",
             body |-> [updates |->
                          [i \in 1..Len(operation.updates) |->
                              PetLocationUpdateToJson(operation.updates[i])]]]
      [] operation.kind = "BatchDeviceControl" ->
            [tag |-> "BatchDeviceControl",
             body |-> [commands |->
                          [i \in 1..Len(operation.commands) |->
                              DeviceCommandToJson(operation.commands[i])]]]
      [] OTHER ->
            [tag |-> "SetDeviceLockState",
             body |-> [device_id |-> operation.device_id,
                       lock_state |-> operation.lock_state]]

OperationFromJson(json) ==
    CASE json.tag = "SetPetLocation" ->
            SetPetLocation(json.body.pet_id, json.body.location)
      [] json.tag = "BatchSetPetLocations" ->
            BatchSetPetLocations(
                [i \in 1..Len(json.body.updates) |->
                    PetLocationUpdateFromJson(json.body.updates[i])])
      [] json.tag = "BatchDeviceControl" ->
            BatchDeviceControl(
                [i \in 1..Len(json.body.commands) |->
                    DeviceCommandFromJson(json.body.commands[i])])
      [] OTHER ->
            SetDeviceLockState(json.body.device_id, json.body.lock_state)

EntryToJson(entry) ==
    [operation |-> OperationToJson(entry.operation),
     id |-> entry.id,
     queued_at |-> entry.queued_at,
     retry_count |-> entry.retry_count,
     max_retries |-> entry.max_retries]

\* Fault variant of the deserialisation of an entry: retry_count is not read
\* back (as a skipped or defaulted serde field would be).
EntryFromJson_no_retry_count(json) ==
    [operation |-> OperationFromJson(json.operation),
     id |-> json.id,
     queued_at |-> json.queued_at,
     retry_count |-> 0,
     max_retries |-> json.max_retries]

EntryFromJson(json) ==
    [operation |-> OperationFromJson(json.operation),
     id |-> json.id,
     queued_at |-> json.queued_at,
     retry_count |-> json.retry_count,
     max_retries |-> json.max_retries]

\* The states of the file load_queue tells apart: no file, a file that is
\* empty or blank, a file that is not a JSON array of entries, and a JSON
\* array of entries.
MissingFile == [kind |-> "missing", doc |-> <<>>]
BlankFile == [kind |-> "blank", doc |-> <<>>]
CorruptFile == [kind |-> "corrupt", doc |-> <<>>]

\* Fault variant of load_queue: a file that does not parse loads as empty.
load_queue_lenient(file) ==
    CASE file.kind = "json" ->
            [ok |-> TRUE,
             queue |-> [i \in 1..Len(file.doc) |-> EntryFromJson(file.doc[i])]]
      [] OTHER -> [ok |-> TRUE, queue |-> <<>>]

\* load_queue: Ok(Vec) or Err(system error).
load_queue(file) ==
    CASE file.kind = "missing" -> [ok |-> TRUE, queue |-> <<>>]
      [] file.kind = "blank" -> [ok |-> TRUE, queue |-> <<>>]
      [] file.kind = "corrupt" -> [ok |-> FALSE, queue |-> <<>>]
      [] OTHER ->
            [ok |-> TRUE,
             queue |-> [i \in 1..Len(file.doc) |-> EntryFromJson(file.doc[i])]]

\* save_queue: the file it leaves (it replaces the whole content).
save_queue(queue) ==
    [kind |-> "json",
     doc |-> [i \in 1..Len(queue) |-> EntryToJson(queue[i])]]

---------------------------------------------------------------------------
\* Sequence helpers.

\* Fault variant of retain_not: the predicate of retain is inverted.
RECURSIVE retain_only(_, _)
retain_only(queue, operation_id) ==
    IF queue = <<>> THEN <<>>
    ELSE IF Head(queue).id = operation_id
         THEN <<Head(queue)>> \o retain_only(Tail(queue), operation_id)
         ELSE retain_only(Tail(queue), operation_id)

\* Vec::retain: the subsequence of the entries whose id is not operation_id.
RECURSIVE retain_not(_, _)
retain_not(queue, operation_id) ==
    IF queue = <<>> THEN <<>>
    ELSE IF Head(queue).id # operation_id
         THEN <<Head(queue)>> \o retain_not(Tail(queue), operation_id)
         ELSE retain_not(Tail(queue), operation_id)

IdsOf(queue) == { queue[i].id : i \in 1..Len(queue) }

---------------------------------------------------------------------------
\* synchronize: the body of the loop over the loaded queue, for one entry
\* and the executor's answer for it.

SyncAcc0 ==
    [keep |-> <<>>, successful |-> 0, failed |-> 0, retried |-> 0]

\* Fault variant of SyncEntry: kept entries are inserted at the front.
SyncEntry_keep_front(acc, entry, outcome) ==
    CASE outcome = "Success" ->
            [acc EXCEPT !.successful = @ + 1]
      [] outcome = "Retry" ->
            IF can_retry(entry)
            THEN [acc EXCEPT !.keep = <<increment_retry(entry)>> \o @,
                             !.retried = @ + 1]
            ELSE [acc EXCEPT !.failed = @ + 1]
      [] OTHER ->
            [acc EXCEPT !.failed = @ + 1]

\* Fault variant of SyncEntry: Fail is handled like Retry.
SyncEntry_fail_requeues(acc, entry, outcome) ==
    CASE outcome = "Success" ->
            [acc EXCEPT !.successful = @ + 1]
      [] OTHER ->
            IF can_retry(entry)
            THEN [acc EXCEPT !.keep = Append(@, increment_retry(entry)),
                             !.retried = @ + 1]
            ELSE [acc EXCEPT !.failed = @ + 1]

SyncEntry(acc, entry, outcome) ==
    CASE outcome = "Success" ->
            [acc EXCEPT !.successful = @ + 1]
      [] outcome = "Retry" ->
            IF can_retry(entry)
            THEN [acc EXCEPT !.keep = Append(@, increment_retry(entry)),
                             !.retried = @ + 1]
            ELSE [acc EXCEPT !.failed = @ + 1]
      [] OTHER ->
            [acc EXCEPT !.failed = @ + 1]

\* Fault variant of SyncLoop: the last entry is not visited.
RECURSIVE SyncLoop_skip_last(_, _, _, _)
SyncLoop_skip_last(queue, outcomes, i, acc) ==
    IF i >= Len(queue) THEN acc
    ELSE SyncLoop_skip_last(queue, outcomes, i + 1,
                            SyncEntry(acc, queue[i], outcomes[i]))

\* The loop: entries i..Len(queue), in order.
RECURSIVE SyncLoop(_, _, _, _)
SyncLoop(queue, outcomes, i, acc) ==
    IF i > Len(queue) THEN acc
    ELSE SyncLoop(queue, outcomes, i + 1,
                  SyncEntry(acc, queue[i], outcomes[i]))

---------------------------------------------------------------------------
\* The record of a call: the operation, whether it returned Ok, its
\* argument, the value returned, the file it found, the queue it loaded,
\* and for synchronize the executor's answers and, for each loaded entry,
\* the number of executor calls made for it up to and including this one.

NoCall ==
    [ok |-> TRUE, outcomes |-> <<>>, op |-> "none", arg |-> 0,
     ret |-> 0, pre_file |-> MissingFile, loaded |-> <<>>,
     calls |-> <<>>]

Call(op, ok, arg, ret, loaded, outcomes, calls) ==
    [ok |-> ok, outcomes |-> outcomes, op |-> op, arg |-> arg,
     ret |-> ret, pre_file |-> queue_file,
     loaded |-> loaded, calls |-> calls]

\* The counts att[i] of the entries of `queue` whose id is in `ids`, from
\* position i on.
RECURSIVE KeepAttempts(_, _, _, _)
KeepAttempts(queue, att, ids, i) ==
    IF i > Len(queue) THEN <<>>
    ELSE (IF queue[i].id \in ids THEN <<att[i]>> ELSE <<>>)
         \o KeepAttempts(queue, att, ids, i + 1)

---------------------------------------------------------------------------
\* The cache (src/src/cache.rs).

\* Bounds: the times Utc::now returns to the cache are 0..MaxTime and the
\* TTL a CacheManager is built with is one of 1..MaxTtl (in the same unit).
MaxTime == 4
MaxTtl == 2

\* The file names of the two lists the OfflineManager reads.
CacheKeys == {"pets.json", "devices.json"}

\* The lists the remote API can answer with (two versions of a list).
Payloads == {"listA", "listB"}

\* Fault variant of CachedData::new: the TTL is not added.
CachedData_new_no_ttl(data, ttl_, now_) ==
    [data |-> data, cached_at |-> now_, expires_at |-> now_]

\* CachedData::new
CachedData_new(data, ttl_, now_) ==
    [data |-> data, cached_at |-> now_, expires_at |-> now_ + ttl_]

\* Fault variant of CachedData::is_expired: expired at the expiry time.
is_expired_at_expiry(cached, now_) == now_ >= cached.expires_at

\* Fault variant of CachedData::is_expired: the comparison is inverted.
is_expired_inverted(cached, now_) == now_ < cached.expires_at

\* CachedData::is_expired
is_expired(cached, now_) == now_ > cached.expires_at

\* serde_json writes CachedData as an object and the two DateTime<Utc> as
\* RFC 3339 strings.
CachedDataToJson(cached) ==
    [data |-> cached.data,
     cached_at |-> <<"rfc3339", cached.cached_at>>,
     expires_at |-> <<"rfc3339", cached.expires_at>>]

CachedDataFromJson(json) ==
    [data |-> json.data,
     cached_at |-> json.cached_at[2],
     expires_at |-> json.expires_at[2]]

\* The states of a cache file get_cached_data tells apart: no file, a file
\* that does not deserialise, and a serialised CachedData.
NoCacheFile == [kind |-> "missing", doc |-> <<>>]
CorruptCacheFile == [kind |-> "corrupt", doc |-> <<>>]

\* Option<CachedData<T>>
None == [cached |-> <<>>, some |-> FALSE]
Some(cached) == [cached |-> cached, some |-> TRUE]

\* read_cache_file: Ok(CachedData) or Err.
read_cache_file(file) ==
    IF file.kind = "json"
    THEN [ok |-> TRUE, cached |-> CachedDataFromJson(file.doc)]
    ELSE [ok |-> FALSE, cached |-> <<>>]

\* get_cached_data at time now_: what it returns and the file it leaves
\* (an expired file is removed).
get_cached_data(file, now_) ==
    IF file.kind = "missing"
    THEN [file |-> file, ret |-> None]
    ELSE IF read_cache_file(file).ok
         THEN IF is_expired(read_cache_file(file).cached, now_)
              THEN [file |-> NoCacheFile, ret |-> None]
              ELSE [file |-> file, ret |-> Some(read_cache_file(file).cached)]
         ELSE [file |-> file, ret |-> None]

\* store_cached_data: the file it leaves.
store_cached_data(cached) ==
    [kind |-> "json", doc |-> CachedDataToJson(cached)]

\* The record of a call on the CacheManager or the OfflineManager:
\*   op, arg       the call and its arguments;
\*   remote        the answers of the remote calls it made, in order;
\*   ok, ret       Ok or Err, and the value returned;
\*   pre_cache     the cache files before the call;
\*   pre_queue     the queue file before the call;
\*   at, done      the time when the call started and when it returned.
NoManagerCall ==
    [ok |-> TRUE, op |-> "none", arg |-> <<>>, ret |-> <<>>, remote |-> <<>>,
     pre_cache |-> <<>>, pre_queue |-> MissingFile, at |-> 0, done |-> 0]

ManagerCall(op, arg, remote, ok, ret) ==
    [ok |-> ok, op |-> op, arg |-> arg, ret |-> ret, remote |-> remote,
     pre_cache |-> cache, pre_queue |-> queue_file, at |-> utc_now,
     done |-> utc_now']

\* A CacheManager that is not used: no cache file, time 0, TTL 1.
CacheIdle ==
    /\ cache = [key \in CacheKeys |-> NoCacheFile]
    /\ utc_now = 0
    /\ ttl = 1
    /\ mlast = NoManagerCall

\* The locals of a process that is between two calls on the queue, and of
\* one inside a call: the entry being enqueued, the queue loaded, and for
\* synchronize the counters and operations_to_keep so far and the answers
\* the executor gave so far.  `missed` is history: the ids of the entries
\* whose enqueue, by another process, completed since the call loaded the
\* queue.
IdleProc ==
    [entry |-> <<>>, queue |-> <<>>, acc |-> SyncAcc0, outcomes |-> <<>>,
     pc |-> "idle", missed |-> {}]

\* No process is inside a call, no synchronize has completed, and the remote
\* API has applied no write yet.
RestIdle ==
    /\ procs = [p \in Procs |-> IdleProc]
    /\ syncs = 0
    /\ remote_location = [pet_id \in PetIds |-> <<>>]

---------------------------------------------------------------------------
Init ==
    /\ queue_file \in {MissingFile, BlankFile, CorruptFile}
    /\ next_uuid = 1
    /\ clock = 10
    /\ attempts = <<>>
    /\ last = NoCall
    /\ CacheIdle
    /\ RestIdle

\* Fault variant of enqueue: the entry is inserted at the front.
enqueue_front(operation) ==
    /\ next_uuid <= MaxEnqueues
    /\ \E entry \in {QueuedOperationEntry_new(operation, next_uuid, clock)} :
       \E loaded \in {load_queue(queue_file)} :
           /\ next_uuid' = next_uuid + 1
           /\ clock' = clock + 1
           /\ IF loaded.ok
              THEN /\ queue_file' = save_queue(<<entry>> \o loaded.queue)
                   /\ attempts' = <<0>> \o attempts
                   /\ last' = Call("enqueue", TRUE, operation, entry.id,
                                   loaded.queue, <<>>, <<>>)
              ELSE /\ last' = Call("enqueue", FALSE, operation, "SystemError",
                                   <<>>, <<>>, <<>>)
                   /\ UNCHANGED <<queue_file, attempts>>

\* OperationQueue::enqueue
enqueue(operation) ==
    /\ next_uuid <= MaxEnqueues
    /\ \E entry \in {QueuedOperationEntry_new(operation, next_uuid, clock)} :
       \E loaded \in {load_queue(queue_file)} :
           /\ next_uuid' = next_uuid + 1
           /\ clock' = clock + 1
           /\ IF loaded.ok
              THEN /\ queue_file' = save_queue(Append(loaded.queue, entry))
                   /\ attempts' = Append(attempts, 0)
                   /\ last' = Call("enqueue", TRUE, operation, entry.id,
                                   loaded.queue, <<>>, <<>>)
              ELSE /\ last' = Call("enqueue", FALSE, operation, "SystemError",
                                   <<>>, <<>>, <<>>)
                   /\ UNCHANGED <<queue_file, attempts>>

\* OperationQueue::size
size ==
    /\ \E loaded \in {load_queue(queue_file)} :
           last' = IF loaded.ok
                   THEN Call("size", TRUE, 0, Len(loaded.queue),
                             loaded.queue, <<>>, <<>>)
                   ELSE Call("size", FALSE, 0, "SystemError",
                             <<>>, <<>>, <<>>)
    /\ UNCHANGED <<queue_file, next_uuid, clock, attempts>>

\* OperationQueue::is_empty
is_empty ==
    /\ \E loaded \in {load_queue(queue_file)} :
           last' = IF loaded.ok
                   THEN Call("is_empty", TRUE, 0, loaded.queue = <<>>,
                             loaded.queue, <<>>, <<>>)
                   ELSE Call("is_empty", FALSE, 0, "SystemError",
                             <<>>, <<>>, <<>>)
    /\ UNCHANGED <<queue_file, next_uuid, clock, attempts>>

\* OperationQueue::get_all
get_all ==
    /\ \E loaded \in {load_queue(queue_file)} :
           last' = IF loaded.ok
                   THEN Call("get_all", TRUE, 0, loaded.queue,
                             loaded.queue, <<>>, <<>>)
                   ELSE Call("get_all", FALSE, 0, "SystemError",
                             <<>>, <<>>, <<>>)
    /\ UNCHANGED <<queue_file, next_uuid, clock, attempts>>

\* Fault variant of clear: it loads the queue first and returns its error.
clear_after_load ==
    /\ \E loaded \in {load_queue(queue_file)} :
           IF loaded.ok
           THEN /\ queue_file' = save_queue(<<>>)
                /\ attempts' = <<>>
                /\ last' = Call("clear", TRUE, 0, 0, <<>>, <<>>, <<>>)
           ELSE /\ last' = Call("clear", FALSE, 0, "SystemError",
                                <<>>, <<>>, <<>>)
                /\ UNCHANGED <<queue_file, attempts>>
    /\ UNCHANGED <<next_uuid, clock>>

\* OperationQueue::clear: it writes the empty list without loading.
clear ==
    /\ queue_file' = save_queue(<<>>)
    /\ attempts' = <<>>
    /\ last' = Call("clear", TRUE, 0, 0, <<>>, <<>>, <<>>)
    /\ UNCHANGED <<next_uuid, clock>>

\* OperationQueue::remove
remove(operation_id) ==
    /\ \E loaded \in {load_queue(queue_file)} :
       \E queue \in {retain_not(loaded.queue, operation_id)} :
           IF ~loaded.ok
           THEN /\ last' = Call("remove", FALSE, operation_id, "SystemError",
                                <<>>, <<>>, <<>>)
                /\ UNCHANGED <<queue_file, attempts>>
           ELSE IF Len(queue) < Len(loaded.queue)
           THEN /\ queue_file' = save_queue(queue)
                /\ attempts' = KeepAttempts(loaded.queue, attempts,
                                            IdsOf(queue), 1)
                /\ last' = Call("remove", TRUE, operation_id, TRUE,
                                loaded.queue, <<>>, <<>>)
           ELSE /\ last' = Call("remove", TRUE, operation_id, FALSE,
                                loaded.queue, <<>>, <<>>)
                /\ UNCHANGED <<queue_file, attempts>>
    /\ UNCHANGED <<next_uuid, clock>>

\* SyncResult
SyncResult(total_operations, successful, failed, retried) ==
    [successful |-> successful, failed |-> failed,
     retried |-> retried, total_operations |-> total_operations]

\* OperationQueue::synchronize from the loaded queue on, with the executor's
\* answer for each entry (outcomes[i] for the i-th entry).
synchronize_with(loaded, outcomes) ==
    /\ \E acc \in {SyncLoop(loaded.queue, outcomes, 1, SyncAcc0)} :
       \E calls \in {[i \in 1..Len(loaded.queue) |-> attempts[i] + 1]} :
           IF ~loaded.ok
           THEN /\ last' = Call("synchronize", FALSE, 0, "SystemError",
                                <<>>, <<>>, <<>>)
                /\ UNCHANGED <<queue_file, attempts>>
           ELSE IF Len(loaded.queue) = 0
           THEN /\ last' = Call("synchronize", TRUE, 0,
                                SyncResult(0, 0, 0, 0), <<>>, <<>>, <<>>)
                /\ UNCHANGED <<queue_file, attempts>>
           ELSE /\ queue_file' = save_queue(acc.keep)
                /\ attempts' = KeepAttempts(loaded.queue, calls,
                                            IdsOf(acc.keep), 1)
                /\ last' = Call("synchronize", TRUE, 0,
                                SyncResult(Len(loaded.queue), acc.successful,
                                           acc.failed, acc.retried),
                                loaded.queue, outcomes, calls)
    /\ UNCHANGED <<next_uuid, clock>>

\* OperationQueue::synchronize, for every executor: any answer for any
\* entry.
synchronize ==
    \E loaded \in {load_queue(queue_file)} :
    \E outcomes \in [1..Len(loaded.queue) -> OperationResult] :
        synchronize_with(loaded, outcomes)

Next ==
    \/ (\E operation \in QueuedOperation : enqueue(operation))
          /\ UNCHANGED <<cache_vars, mlast, rest_vars>>
    \/ size /\ UNCHANGED <<cache_vars, mlast, rest_vars>>
    \/ is_empty /\ UNCHANGED <<cache_vars, mlast, rest_vars>>
    \/ get_all /\ UNCHANGED <<cache_vars, mlast, rest_vars>>
    \/ clear /\ UNCHANGED <<cache_vars, mlast, rest_vars>>
    \/ (\E operation_id \in Ids : remove(operation_id))
          /\ UNCHANGED <<cache_vars, mlast, rest_vars>>
    \/ synchronize /\ UNCHANGED <<cache_vars, mlast, rest_vars>>

Spec == Init /\ [][Next]_vars

---------------------------------------------------------------------------
\* What the claims speak of.

\* The persisted queue: the entries the queue file holds, as a call that
\* loads it now would see them.
Persisted == load_queue(queue_file).queue

\* The last call was a synchronize that ran the executor and returned Ok.
Synced == last.op = "synchronize" /\ last.ok /\ last.loaded # <<>>

\* Positions of the queue loaded by the last synchronize, by what the
\* executor answered and the entry's counter at that time.
Answered(outcome) ==
    { i \in 1..Len(last.loaded) : last.outcomes[i] = outcome }

RetryBelowMax ==
    { i \in Answered("Retry") :
        last.loaded[i].retry_count < last.loaded[i].max_retries }

RetryAtMax ==
    { i \in Answered("Retry") :
        last.loaded[i].retry_count = last.loaded[i].max_retries }

\* The entry as requeued: its counter one higher, the rest as it was.
Requeued(entry) ==
    [operation |-> entry.operation, id |-> entry.id,
     queued_at |-> entry.queued_at, retry_count |-> entry.retry_count + 1,
     max_retries |-> entry.max_retries]

\* C1: an entry accepted by enqueue is in the persisted queue when enqueue
\* returns its id, and an entry of the persisted queue leaves it only by a
\* clear, by a remove of its id, or by a synchronize in which the executor
\* answered Success or Fail for it, or Retry with its retry_count equal to
\* max_retries; until then it stays, with its id, operation and queued_at.
C1_AcceptedNotLost ==
    [][ /\ (last'.op = "enqueue" /\ last'.ok) =>
              \E i \in 1..Len(Persisted') :
                  /\ Persisted'[i].id = last'.ret
                  /\ Persisted'[i].operation = last'.arg
        /\ \A i \in 1..Len(Persisted) :
              \/ \E j \in 1..Len(Persisted') :
                    /\ Persisted'[j].id = Persisted[i].id
                    /\ Persisted'[j].operation = Persisted[i].operation
                    /\ Persisted'[j].queued_at = Persisted[i].queued_at
              \/ last'.op = "clear"
              \/ last'.op = "remove" /\ last'.arg = Persisted[i].id
              \/ /\ last'.op = "synchronize"
                 /\ last'.loaded[i].id = Persisted[i].id
                 /\ \/ last'.outcomes[i] \in {"Success", "Fail"}
                    \/ /\ last'.outcomes[i] = "Retry"
                       /\ Persisted[i].retry_count = Persisted[i].max_retries
      ]_vars

\* An entry survived a synchronize that dropped another one.
C1_Witness ==
    /\ Synced
    /\ \E i \in RetryBelowMax : last.loaded[i].id \in IdsOf(Persisted)
    /\ Answered("Success") # {}

\* C2: every entry of the persisted queue has retry_count <= max_retries,
\* and an entry answered Retry while retry_count = max_retries is removed
\* and counted as failed.
C2_RetryCountBounded ==
    /\ \A i \in 1..Len(Persisted) :
          Persisted[i].retry_count <= Persisted[i].max_retries
    /\ Synced =>
          /\ \A i \in RetryAtMax : last.loaded[i].id \notin IdsOf(Persisted)
          /\ last.ret.failed = Cardinality(Answered("Fail") \cup RetryAtMax)

C2_Witness ==
    /\ Synced
    /\ RetryAtMax # {}
    /\ RetryBelowMax # {}

\* C3: for a queue of one entry answered Retry, the call is the n-th
\* executor call for the entry with n <= max_retries + 1; for
\* n <= max_retries the entry is kept with retry_count = n, one more than
\* before, and the call reports retried = 1, failed = 0; for
\* n = max_retries + 1 the entry is dropped, the queue is left empty and the
\* call reports failed = 1, retried = 0.
C3_RetryBound ==
    (Synced /\ Len(last.loaded) = 1 /\ last.outcomes[1] = "Retry") =>
        LET entry == last.loaded[1]
            n == last.calls[1]
        IN  /\ n \in 1..(entry.max_retries + 1)
            /\ n <= entry.max_retries =>
                  /\ Persisted = <<Requeued(entry)>>
                  /\ Persisted[1].retry_count = n
                  /\ last.ret = [successful |-> 0, failed |-> 0,
                                 retried |-> 1, total_operations |-> 1]
            /\ n = entry.max_retries + 1 =>
                  /\ Persisted = <<>>
                  /\ last.ret = [successful |-> 0, failed |-> 1,
                                 retried |-> 0, total_operations |-> 1]

\* The fourth call for the entry dropped it.
C3_Witness ==
    /\ Synced
    /\ Len(last.loaded) = 1
    /\ last.outcomes[1] = "Retry"
    /\ last.calls[1] = 4
    /\ Persisted = <<>>

\* C4: after a synchronize that returned Ok the persisted queue is the
\* entries answered Retry with retry_count < max_retries, in the order of
\* the loaded queue, each with retry_count one higher and its other fields
\* as loaded; no other entry and nothing of the previous content remains.
C4_KeptSubsequence ==
    (last.op = "synchronize" /\ last.ok) =>
        LET rank(i) == Cardinality({ j \in RetryBelowMax : j <= i })
        IN  /\ Len(Persisted) = Cardinality(RetryBelowMax)
            /\ \A i \in RetryBelowMax :
                  Persisted[rank(i)] = Requeued(last.loaded[i])

\* Two entries kept around one that was dropped.
C4_Witness ==
    /\ Synced
    /\ Len(last.loaded) = 3
    /\ RetryBelowMax = {1, 3}
    /\ Len(Persisted) = 2

\* C5: a synchronize whose executor answers Success for every one of the n
\* loaded entries leaves the persisted queue empty and returns
\* total_operations = n, successful = n, failed = 0, retried = 0; a
\* synchronize that follows it returns all-zero tallies and leaves the
\* queue empty.
C5_AllSuccess ==
    [][ LET AllSuccess(call) ==
                /\ call.op = "synchronize"
                /\ call.ok
                /\ \A i \in 1..Len(call.loaded) : call.outcomes[i] = "Success"
        IN  /\ AllSuccess(last') =>
                  /\ Persisted' = <<>>
                  /\ last'.ret = [successful |-> Len(last'.loaded),
                                  failed |-> 0, retried |-> 0,
                                  total_operations |-> Len(last'.loaded)]
            /\ (AllSuccess(last) /\ last'.op = "synchronize") =>
                  /\ last'.ok
                  /\ Persisted' = <<>>
                  /\ last'.ret = [successful |-> 0, failed |-> 0,
                                  retried |-> 0, total_operations |-> 0]
      ]_vars

\* A queue of several entries was emptied by an all-success synchronize.
C5_Witness ==
    /\ Synced
    /\ Len(last.loaded) >= 2
    /\ Answered("Success") = 1..Len(last.loaded)
    /\ Persisted = <<>>

\* C6: an entry answered Fail, whatever its retry_count, is not in the
\* persisted queue after the call, with or without a higher counter; it is
\* counted once in failed and not in retried: failed counts the entries
\* answered Fail and those answered Retry at max_retries, retried counts the
\* entries requeued.
C6_FailShortCircuit ==
    Synced =>
        /\ \A i \in Answered("Fail") :
              last.loaded[i].id \notin IdsOf(Persisted)
        /\ last.ret.failed = Cardinality(Answered("Fail"))
                             + Cardinality(RetryAtMax)
        /\ last.ret.retried = Cardinality(RetryBelowMax)
        /\ last.ret.successful = Cardinality(Answered("Success"))

\* A first-attempt entry and a retried one both failed permanently.
C6_Witness ==
    /\ Synced
    /\ \E i \in Answered("Fail") : last.loaded[i].retry_count = 0
    /\ \E i \in Answered("Fail") : last.loaded[i].retry_count > 0
    /\ last.ret.failed >= 2

\* C7: an enqueue that returned Ok leaves the file holding the documents it
\* held before, in the same positions and unchanged, followed by one new
\* entry for the operation given, so the size grows by exactly one per
\* enqueue and entries appear in the order of the calls.
C7_EnqueueAppends ==
    (last.op = "enqueue" /\ last.ok) =>
        LET n == Len(last.pre_file.doc)
        IN  /\ Len(queue_file.doc) = n + 1
            /\ SubSeq(queue_file.doc, 1, n) = last.pre_file.doc
            /\ Len(Persisted) = Len(last.loaded) + 1
            /\ Persisted[n + 1].operation = last.arg
            /\ Persisted[n + 1].id = last.ret

\* The third of three enqueues onto a queue of two.
C7_Witness ==
    /\ last.op = "enqueue"
    /\ last.ok
    /\ Len(last.pre_file.doc) = 2
    /\ Len(Persisted) = 3

\* C8: the entry an enqueue leaves last in the queue has retry_count = 0,
\* max_retries = 3 and the id enqueue returned, and no two entries of the
\* persisted queue have the same id.
C8_FreshEntry ==
    /\ (last.op = "enqueue" /\ last.ok) =>
          /\ Persisted[Len(Persisted)].retry_count = 0
          /\ Persisted[Len(Persisted)].max_retries = 3
          /\ Persisted[Len(Persisted)].id = last.ret
    /\ \A i, j \in 1..Len(Persisted) :
          Persisted[i].id = Persisted[j].id => i = j

\* A new entry joined one that had already been retried.
C8_Witness ==
    /\ last.op = "enqueue"
    /\ last.ok
    /\ Len(Persisted) >= 2
    /\ Persisted[1].retry_count > 0

\* C9: a remove that returned Ok returned true iff the file held an entry
\* with the id given; when true the file holds the previous documents
\* without that one, the others unchanged and in the same order; when false
\* the file is as it was.
C9_Remove ==
    (last.op = "remove" /\ last.ok) =>
        LET pre == last.pre_file.doc
            held == { k \in 1..Len(pre) : pre[k].id = last.arg }
        IN  /\ last.ret = (held # {})
            /\ last.ret =>
                  \E k \in held :
                      queue_file.doc = SubSeq(pre, 1, k - 1)
                                       \o SubSeq(pre, k + 1, Len(pre))
            /\ ~last.ret => queue_file = last.pre_file

\* The middle entry of three was removed.
C9_Witness ==
    /\ last.op = "remove"
    /\ last.ok
    /\ last.ret
    /\ Len(last.pre_file.doc) = 3
    /\ last.pre_file.doc[2].id = last.arg

\* C10: clear returns Ok on any file, whether it holds entries, none, or
\* cannot be parsed, and leaves a queue that loads as empty (is_empty true,
\* size 0); a clear on the file a clear left changes nothing.
C10_Clear ==
    last.op = "clear" =>
        /\ last.ok
        /\ load_queue(queue_file).ok
        /\ Persisted = <<>>
        /\ Len(Persisted) = 0
        /\ last.pre_file = save_queue(<<>>) => queue_file = last.pre_file

\* A queue of several entries was cleared.
C10_Witness ==
    /\ last.op = "clear"
    /\ Len(last.pre_file.doc) >= 2
    /\ queue_file.doc = <<>>

---------------------------------------------------------------------------
\* The list the last call handed to save_queue, recomputed from the record
\* of the call.  Defined for the calls that write the file.
Written ==
    CASE last.op = "enqueue" ->
            Append(last.loaded,
                   QueuedOperationEntry_new(last.arg, last.ret, clock - 1))
      [] last.op = "remove" -> retain_not(last.loaded, last.arg)
      [] last.op = "synchronize" ->
            SyncLoop(last.loaded, last.outcomes, 1, SyncAcc0).keep
      [] OTHER -> <<>>

\* The call wrote the queue file.
Wrote ==
    \/ last.op \in {"enqueue", "clear"} /\ last.ok
    \/ last.op = "remove" /\ last.ok /\ last.ret
    \/ Synced

---------------------------------------------------------------------------
\* The remote API, as the OfflineManager sees it: each call of the client
\* returns Ok or a reqwest::Error.  The client returns the error of
\* send() (the request could not be sent or timed out) or, for a response
\* whose status is not a success, the error of error_for_status().

\* The errors: what is_request, is_timeout, is_connect and status() say of
\* each.  An error of send() is a request error whose source tells a
\* timeout and a failed connection apart; an error for a status carries the
\* status and is none of the three.
TimedOut == [kind |-> "Request", source |-> "TimedOut", status |-> 0]
ConnectFailed == [kind |-> "Request", source |-> "Connect", status |-> 0]
RequestFailed == [kind |-> "Request", source |-> "Other", status |-> 0]
StatusError(status) == [kind |-> "Status", source |-> "None", status |-> status]

is_timeout(error) == error.source = "TimedOut"
is_connect(error) == error.source = "Connect"
is_request(error) == error.kind = "Request"

\* The statuses the model answers with: not authorised, forbidden, not valid,
\* and a failure of the server.
ErrorStatuses == {401, 403, 422, 503}

ReqwestErrors ==
    {TimedOut, ConnectFailed, RequestFailed}
        \cup { StatusError(status) : status \in ErrorStatuses }

\* Result<T, reqwest::Error>
RemoteOk(value) == [ok |-> TRUE, error |-> <<>>, value |-> value]
RemoteErr(error) == [ok |-> FALSE, error |-> error, value |-> <<>>]

\* What a remote read can answer.  A read treats every error alike, so two
\* of them stand for all.
ReadAnswers ==
    { RemoteOk(data) : data \in Payloads }
        \cup { RemoteErr(ConnectFailed), RemoteErr(StatusError(503)) }

\* Time a remote call can take, as Utc::now sees it.
Elapsed == {0, 1}

---------------------------------------------------------------------------
\* Calls of the CacheManager and reads of the OfflineManager.

\* CacheManager::get_pets, get_devices
CacheManager_get(key) ==
    /\ UNCHANGED <<utc_now, ttl, queue_vars>>
    /\ \E got \in {get_cached_data(cache[key], utc_now)} :
           /\ cache' = [cache EXCEPT ![key] = got.file]
           /\ mlast' = ManagerCall("CacheManager_get", key, <<>>, TRUE, got.ret)

\* CacheManager::cache_pets, cache_devices
CacheManager_cache(key, data) ==
    /\ UNCHANGED <<utc_now, ttl, queue_vars>>
    /\ cache' = [cache EXCEPT
                   ![key] = store_cached_data(CachedData_new(data, ttl, utc_now))]
    /\ mlast' = ManagerCall("CacheManager_cache", <<key, data>>, <<>>, TRUE, <<>>)

\* (Vec<T>, bool): the list and whether it comes from the cache.
ReadReturn(data, from_cache) == [data |-> data, from_cache |-> from_cache]

\* OfflineManager::get_pets and get_devices, which differ in the key and the
\* remote call only.  The remote call, when made, takes `elapsed`.
OfflineManager_read(op, key, force_refresh) ==
    \E first \in {IF force_refresh
                  THEN [file |-> cache[key], ret |-> None]
                  ELSE get_cached_data(cache[key], utc_now)} :
        IF first.ret.some
        THEN /\ UNCHANGED <<utc_now, ttl, queue_vars>>
             /\ cache' = [cache EXCEPT ![key] = first.file]
             /\ mlast' = ManagerCall(op, force_refresh, <<>>, TRUE,
                                     ReadReturn(first.ret.cached.data, TRUE))
        ELSE \E answer \in ReadAnswers :
             \E elapsed \in Elapsed :
                 /\ utc_now + elapsed <= MaxTime
                 /\ utc_now' = utc_now + elapsed
                 /\ IF answer.ok
                    THEN /\ cache' =
                              [cache EXCEPT
                                 ![key] = store_cached_data(
                                     CachedData_new(answer.value, ttl, utc_now'))]
                         /\ mlast' = ManagerCall(op, force_refresh, <<answer>>,
                                                 TRUE,
                                                 ReadReturn(answer.value, FALSE))
                    ELSE \E second \in {get_cached_data(first.file, utc_now')} :
                         /\ cache' = [cache EXCEPT ![key] = second.file]
                         /\ mlast' =
                              IF second.ret.some
                              THEN ManagerCall(op, force_refresh, <<answer>>,
                                               TRUE,
                                               ReadReturn(second.ret.cached.data,
                                                          TRUE))
                              ELSE ManagerCall(op, force_refresh, <<answer>>,
                                               FALSE, "NetworkError")
                 /\ UNCHANGED <<ttl, queue_vars>>

\* OfflineManager::get_pets
get_pets(force_refresh) ==
    OfflineManager_read("get_pets", "pets.json", force_refresh)

\* OfflineManager::get_devices
get_devices(force_refresh) ==
    OfflineManager_read("get_devices", "devices.json", force_refresh)

\* Time passes between two calls.
tick ==
    /\ utc_now < MaxTime
    /\ utc_now' = utc_now + 1
    /\ UNCHANGED <<cache, ttl, mlast, queue_vars>>

\* A cache directory as CacheManager::new can find it (each file absent or
\* left unreadable by an earlier run), with a TTL within the bound.
InitCache ==
    /\ cache \in [CacheKeys -> {NoCacheFile, CorruptCacheFile}]
    /\ utc_now = 0
    /\ ttl \in 1..MaxTtl
    /\ mlast = NoManagerCall
    /\ queue_file = MissingFile
    /\ next_uuid = 1
    /\ clock = 10
    /\ attempts = <<>>
    /\ last = NoCall
    /\ RestIdle

NextCache ==
    \/ (\E key \in CacheKeys : CacheManager_get(key)) /\ UNCHANGED rest_vars
    \/ (\E key \in CacheKeys : \E data \in Payloads :
            CacheManager_cache(key, data)) /\ UNCHANGED rest_vars
    \/ (\E force_refresh \in BOOLEAN : get_pets(force_refresh))
          /\ UNCHANGED rest_vars
    \/ (\E force_refresh \in BOOLEAN : get_devices(force_refresh))
          /\ UNCHANGED rest_vars
    \/ tick /\ UNCHANGED rest_vars

SpecCache == InitCache /\ [][NextCache]_vars

---------------------------------------------------------------------------
\* What the claims about the cache speak of.

\* The key a read of the OfflineManager is about.
KeyOf(op) == IF op = "get_pets" THEN "pets.json" ELSE "devices.json"

\* The last call is a read of the OfflineManager.
Read == mlast.op \in {"get_pets", "get_devices"}

\* The entry the cache file of `key` held before the last call.
EntryBefore(key) == CachedDataFromJson(mlast.pre_cache[key].doc)

\* The cache file of `key` held an entry before the last call.
HeldEntry(key) == mlast.pre_cache[key].kind = "json"

\* C12: an entry written at cached_at by a CacheManager of TTL ttl is
\* returned by get_pets / get_devices of the CacheManager at every time up
\* to and including cached_at + ttl, and is not returned (None) at any later
\* time.
C12_ExpiryBoundary ==
    (mlast.op = "CacheManager_get" /\ HeldEntry(mlast.arg)) =>
        /\ mlast.ret.some <=>
              mlast.at <= EntryBefore(mlast.arg).cached_at + ttl
        /\ mlast.ret.some => mlast.ret.cached = EntryBefore(mlast.arg)

\* An entry is returned at the very time it expires, with a TTL of 2.
C12_Witness ==
    /\ mlast.op = "CacheManager_get" /\ HeldEntry(mlast.arg)
    /\ ttl = 2
    /\ mlast.at = EntryBefore(mlast.arg).cached_at + ttl
    /\ mlast.ret.some

\* The last call made a remote call and it failed.
RemoteFailed == mlast.remote # <<>> /\ ~mlast.remote[1].ok

\* C13: when the remote call of get_pets / get_devices fails and the cache
\* file held an entry before the call, even one past its expiry, the call
\* returns Ok with the data of that entry and from_cache = true.
\* (The code looks the entry up with the expiry-checking get_cached_data on
\* this path too, so an expired entry is removed and the call returns Err.)
C13_StaleFallback ==
    (Read /\ RemoteFailed /\ HeldEntry(KeyOf(mlast.op))) =>
        /\ mlast.ok
        /\ mlast.ret = ReadReturn(EntryBefore(KeyOf(mlast.op)).data, TRUE)

\* The entry of `key` was not expired when the last call started.
Unexpired(key) == HeldEntry(key) /\ mlast.at <= EntryBefore(key).expires_at

\* C14: get_pets / get_devices without force_refresh, with an entry in the
\* cache that has not expired, returns the data of the entry with
\* from_cache = true, makes no remote call and leaves every cache file as
\* it was.
C14_CacheHit ==
    (Read /\ mlast.arg = FALSE /\ Unexpired(KeyOf(mlast.op))) =>
        /\ mlast.ok
        /\ mlast.ret = ReadReturn(EntryBefore(KeyOf(mlast.op)).data, TRUE)
        /\ mlast.remote = <<>>
        /\ cache = mlast.pre_cache

\* A hit on the devices at the time their entry expires, which was written
\* earlier by a refresh.
C14_Witness ==
    /\ mlast.op = "get_devices" /\ mlast.arg = FALSE
    /\ Unexpired("devices.json")
    /\ mlast.at = EntryBefore("devices.json").expires_at
    /\ mlast.ok /\ mlast.ret.from_cache /\ mlast.remote = <<>>

\* The last call is a read that had to ask the remote API, and the remote
\* API answered with a list.
Refreshed ==
    /\ Read
    /\ mlast.arg = TRUE \/ ~Unexpired(KeyOf(mlast.op))
    /\ mlast.remote # <<>> /\ mlast.remote[1].ok

\* C15: when the cache missed or was stale, or force_refresh is true, and
\* the remote call succeeds, get_pets / get_devices returns the remote list
\* with from_cache = false and overwrites the cache entry with it
\* (cached_at = the time of the write, expires_at = cached_at + ttl), so
\* that get_cached_data returns that list at every time from the write up to
\* cached_at + ttl (where a read without force_refresh is a hit).
C15_Refresh ==
    Refreshed =>
        /\ mlast.ok
        /\ mlast.ret = ReadReturn(mlast.remote[1].value, FALSE)
        /\ cache = [mlast.pre_cache EXCEPT
                      ![KeyOf(mlast.op)] =
                          store_cached_data(
                              [data |-> mlast.remote[1].value,
                               cached_at |-> mlast.done,
                               expires_at |-> mlast.done + ttl])]
        /\ \A time \in mlast.done..(mlast.done + ttl) :
              get_cached_data(cache[KeyOf(mlast.op)], time).ret =
                  Some([data |-> mlast.remote[1].value,
                        cached_at |-> mlast.done,
                        expires_at |-> mlast.done + ttl])

\* A forced refresh that replaces an entry that had not expired by the other
\* list, the remote call taking time.
C15_Witness ==
    /\ Refreshed /\ mlast.op = "get_pets" /\ mlast.arg = TRUE
    /\ Unexpired("pets.json")
    /\ EntryBefore("pets.json").data # mlast.remote[1].value
    /\ mlast.done > mlast.at
    /\ mlast.ok /\ ~mlast.ret.from_cache

---------------------------------------------------------------------------
\* Writes of the OfflineManager.

\* Bounds: number of writes in a behaviour of SpecWrite and SpecSync (each
\* can enqueue, so it caps next_uuid), and length of a batch request.
MaxWrites == 2
MaxBatch == 2

\* The locations, devices and lock states the writes are about.
Locations == {LOCATION_INSIDE, LOCATION_OUTSIDE}
DeviceIds == {5}
LockStates == {LOCK_STATE_LOCKED, LOCK_STATE_UNLOCKED}

\* The items a batch request is made of: two target values for one pet and
\* one for another; two target values for one device.
PetLocationUpdates ==
    { PetLocationUpdate(1, LOCATION_INSIDE),
      PetLocationUpdate(1, LOCATION_OUTSIDE),
      PetLocationUpdate(2, LOCATION_INSIDE) }

DeviceCommands ==
    { DeviceCommand(device_id, SetLockState(lock_state)) :
          device_id \in DeviceIds, lock_state \in LockStates }

\* Vec<T> of at most MaxBatch items.
Lists(items) == UNION { [1..n -> items] : n \in 0..MaxBatch }

\* What the remote API can answer to a write, and to one item of a batch (a
\* success, a transient error, and errors for a status).
WriteAnswers == {RemoteOk(<<>>)} \cup { RemoteErr(error) : error \in ReqwestErrors }

ItemAnswers ==
    { RemoteOk(<<>>), RemoteErr(TimedOut), RemoteErr(StatusError(401)) }

\* Fault variant of should_queue_operation: is_request is not asked.
should_queue_operation_no_request(error) ==
    is_timeout(error) \/ is_connect(error)

\* OfflineManager::should_queue_operation
should_queue_operation(error) ==
    is_timeout(error) \/ is_connect(error) \/ is_request(error)

\* is_retryable_error
is_retryable_error(error) ==
    is_timeout(error) \/ is_connect(error) \/ is_request(error)

\* What a write returns after enqueue: Ok(()), or the error of enqueue.
AfterEnqueue(op, arg, remote) ==
    ManagerCall(op, arg, remote, last'.ok,
                IF last'.ok THEN <<>> ELSE "SystemError")

\* OfflineManager::set_pet_location and set_device_lock_state, which differ
\* in the remote call and the operation they enqueue only.
OfflineManager_write(op, arg, operation) ==
    /\ next_uuid <= MaxWrites
    /\ UNCHANGED cache_vars
    /\ \E answer \in WriteAnswers :
           IF answer.ok
           THEN /\ mlast' = ManagerCall(op, arg, <<answer>>, TRUE, <<>>)
                /\ UNCHANGED queue_vars
           ELSE IF should_queue_operation(answer.error)
                THEN /\ enqueue(operation)
                     /\ mlast' = AfterEnqueue(op, arg, <<answer>>)
                ELSE /\ mlast' = ManagerCall(op, arg, <<answer>>, FALSE,
                                             "NetworkError")
                     /\ UNCHANGED queue_vars

\* OfflineManager::set_pet_location
set_pet_location(pet_id, location) ==
    OfflineManager_write("set_pet_location", <<pet_id, location>>,
                         SetPetLocation(pet_id, location))

\* OfflineManager::set_device_lock_state
set_device_lock_state(device_id, lock_state) ==
    OfflineManager_write("set_device_lock_state", <<device_id, lock_state>>,
                         SetDeviceLockState(device_id, lock_state))

\* The identifier of an item of a batch of pets or of devices.
ItemId(kind, item) == IF kind = "pets" THEN item.pet_id ELSE item.device_id

BatchOperation(kind, items) ==
    IF kind = "pets" THEN BatchSetPetLocations(items)
    ELSE BatchDeviceControl(items)

\* Client::batch_set_pet_locations, batch_device_control: the identifiers of
\* the items whose call answered Ok (ok = TRUE), or Err, in request order.
RECURSIVE BatchIds(_, _, _, _, _)
BatchIds(kind, items, answers, ok, i) ==
    IF i > Len(items) THEN <<>>
    ELSE (IF answers[i].ok = ok THEN <<ItemId(kind, items[i])>> ELSE <<>>)
         \o BatchIds(kind, items, answers, ok, i + 1)

\* BatchResult; the client returns Ok(BatchResult) whatever the items
\* answered.
Client_batch(kind, items, answers) ==
    RemoteOk([successful |-> BatchIds(kind, items, answers, TRUE, 1),
              failed |-> BatchIds(kind, items, answers, FALSE, 1),
              total_processed |-> Len(items)])

\* iter().find(|item| item.id == id).cloned(): the first item with that
\* identifier, as a list of one item, or of none.
RECURSIVE find(_, _, _, _)
find(kind, items, id, i) ==
    IF i > Len(items) THEN <<>>
    ELSE IF ItemId(kind, items[i]) = id THEN <<items[i]>>
         ELSE find(kind, items, id, i + 1)

\* result.failed.iter().filter_map(find).collect()
RECURSIVE failed_items(_, _, _, _)
failed_items(kind, items, failed, j) ==
    IF j > Len(failed) THEN <<>>
    ELSE find(kind, items, failed[j], 1)
         \o failed_items(kind, items, failed, j + 1)

\* OfflineManager::batch_set_pet_locations and batch_device_control.
OfflineManager_batch(op, kind, items) ==
    /\ next_uuid <= MaxWrites
    /\ UNCHANGED cache_vars
    /\ \E answers \in [1..Len(items) -> ItemAnswers] :
       \E result \in {Client_batch(kind, items, answers)} :
           IF result.ok
           THEN \E failed \in {failed_items(kind, items, result.value.failed, 1)} :
                    IF result.value.failed # <<>> /\ failed # <<>>
                    THEN /\ enqueue(BatchOperation(kind, failed))
                         /\ mlast' = AfterEnqueue(op, items, answers)
                    ELSE /\ mlast' = ManagerCall(op, items, answers, TRUE, <<>>)
                         /\ UNCHANGED queue_vars
           ELSE IF should_queue_operation(result.error)
                THEN /\ enqueue(BatchOperation(kind, items))
                     /\ mlast' = AfterEnqueue(op, items, answers)
                ELSE /\ mlast' = ManagerCall(op, items, answers, FALSE,
                                             "NetworkError")
                     /\ UNCHANGED queue_vars

\* OfflineManager::batch_set_pet_locations
batch_set_pet_locations(updates) ==
    OfflineManager_batch("batch_set_pet_locations", "pets", updates)

\* OfflineManager::batch_device_control
batch_device_control(commands) ==
    OfflineManager_batch("batch_device_control", "devices", commands)

\* The single writes.
NextWrite ==
    \/ (\E pet_id \in PetIds : \E location \in Locations :
            set_pet_location(pet_id, location)) /\ UNCHANGED rest_vars
    \/ (\E device_id \in DeviceIds : \E lock_state \in LockStates :
            set_device_lock_state(device_id, lock_state))
          /\ UNCHANGED rest_vars

SpecWrite == Init /\ [][NextWrite]_vars

\* The single writes and the batch writes.
NextBatch ==
    \/ (\E pet_id \in PetIds : \E location \in Locations :
            set_pet_location(pet_id, location)) /\ UNCHANGED rest_vars
    \/ (\E device_id \in DeviceIds : \E lock_state \in LockStates :
            set_device_lock_state(device_id, lock_state))
          /\ UNCHANGED rest_vars
    \/ (\E updates \in Lists(PetLocationUpdates) :
            batch_set_pet_locations(updates)) /\ UNCHANGED rest_vars
    \/ (\E commands \in Lists(DeviceCommands) :
            batch_device_control(commands)) /\ UNCHANGED rest_vars

SpecBatch == Init /\ [][NextBatch]_vars

---------------------------------------------------------------------------
\* What the claims about the writes speak of.

\* The last call is a single write, a batch write.
SingleWrite == mlast.op \in {"set_pet_location", "set_device_lock_state"}
BatchWrite == mlast.op \in {"batch_set_pet_locations", "batch_device_control"}

\* The queue as it was persisted before the last call of the OfflineManager.
PersistedBefore == load_queue(mlast.pre_queue).queue

\* The operation a single write stands for.
OperationOf(call) ==
    IF call.op = "set_pet_location"
    THEN SetPetLocation(call.arg[1], call.arg[2])
    ELSE SetDeviceLockState(call.arg[1], call.arg[2])

\* The transient errors: timeout, connection failure, request failure.
Transient(error) == error \in {TimedOut, ConnectFailed, RequestFailed}

\* The last call is a single write whose remote call failed with a transient
\* error.
TransientWrite ==
    SingleWrite /\ RemoteFailed /\ Transient(mlast.remote[1].error)

\* The persisted queue is the one before the last call with one entry
\* appended, of retry_count 0 and carrying the operation of the call.
GrownByTheWrite ==
    /\ Len(Persisted) = Len(PersistedBefore) + 1
    /\ SubSeq(Persisted, 1, Len(PersistedBefore)) = PersistedBefore
    /\ Persisted[Len(Persisted)].retry_count = 0
    /\ Persisted[Len(Persisted)].operation = OperationOf(mlast)

Permanent(error) ==
    error.kind = "Status" /\ error.status >= 400 /\ error.status < 500

\* Every item of the last batch write that failed, failed with a permanent
\* error, and one did.
PermanentItemsOnly ==
    /\ BatchWrite
    /\ \E i \in 1..Len(mlast.remote) : ~mlast.remote[i].ok
    /\ \A i \in 1..Len(mlast.remote) :
          mlast.remote[i].ok \/ Permanent(mlast.remote[i].error)

\* C17: a write that fails with a 401, a 403 or another permanent error
\* returns the error and queues nothing: the queue file is as before the
\* call.  For a batch, whose items fail one by one, nothing is queued when
\* the items that failed all failed with a permanent error.
\* (The batch writes queue every failed item, whatever its error.)
C17_PermanentNotQueued ==
    /\ (SingleWrite /\ RemoteFailed /\ Permanent(mlast.remote[1].error)) =>
           ~mlast.ok /\ queue_file = mlast.pre_queue
    /\ PermanentItemsOnly => queue_file = mlast.pre_queue

\* The items of a request whose call answered Ok (ok = TRUE), or Err, in
\* request order.
RECURSIVE ItemsAnswered(_, _, _, _)
ItemsAnswered(items, answers, ok, i) ==
    IF i > Len(items) THEN <<>>
    ELSE (IF answers[i].ok = ok THEN <<items[i]>> ELSE <<>>)
         \o ItemsAnswered(items, answers, ok, i + 1)

\* Two lists hold the same items, each as many times.
SameItems(a, b) ==
    /\ Len(a) = Len(b)
    /\ \A i \in 1..Len(a) :
          Cardinality({j \in 1..Len(a) : a[j] = a[i]})
              = Cardinality({j \in 1..Len(b) : b[j] = a[i]})

\* The items of a batch operation.
ItemsOf(operation) ==
    IF operation.kind = "BatchSetPetLocations" THEN operation.updates
    ELSE operation.commands

\* The kind of operation a batch write enqueues.
BatchKindOf(call) ==
    IF call.op = "batch_set_pet_locations" THEN "BatchSetPetLocations"
    ELSE "BatchDeviceControl"

\* C19: after a batch write (the queue file loading), when no item failed
\* the queue file is as before; otherwise the queue has grown by one batch
\* entry that holds exactly the requested items that failed, each once and
\* with its own target value, and so no item that succeeded, also when the
\* request holds several items for the same identifier.
\* (The code looks each failed identifier up with find, which gives the
\* first requested item of that identifier.)
C19_BatchPartial ==
    (BatchWrite /\ load_queue(mlast.pre_queue).ok) =>
        IF ItemsAnswered(mlast.arg, mlast.remote, FALSE, 1) = <<>>
        THEN queue_file = mlast.pre_queue
        ELSE /\ Len(Persisted) = Len(PersistedBefore) + 1
             /\ Persisted[Len(Persisted)].operation.kind = BatchKindOf(mlast)
             /\ SameItems(ItemsOf(Persisted[Len(Persisted)].operation),
                          ItemsAnswered(mlast.arg, mlast.remote, FALSE, 1))

---------------------------------------------------------------------------
\* Reconciliation: OfflineManager::synchronize_when_online.

\* What the HEAD request of check_connectivity can get: a response with a
\* status, or an error.
ProbeAnswers ==
    { RemoteOk(200), RemoteOk(404), RemoteOk(503), RemoteErr(ConnectFailed) }

\* What the remote API can answer to the replay of an entry: a success, a
\* transient error, and errors for a status of the client and of the server.
ReplayAnswers ==
    { RemoteOk(<<>>), RemoteErr(TimedOut), RemoteErr(StatusError(401)),
      RemoteErr(StatusError(503)) }

\* Fault variant of check_connectivity: any response counts.
check_connectivity_any_response(answer) == answer.ok

\* check_connectivity: status().is_success() || status().is_client_error()
check_connectivity(answer) ==
    /\ answer.ok
    /\ \/ answer.value >= 200 /\ answer.value < 300
       \/ answer.value >= 400 /\ answer.value < 500

\* The executor closure: the answer of the remote call for the operation,
\* turned into an OperationResult.  The batch calls of the client return Ok
\* whatever the items answered.
executor(operation, answer) ==
    IF operation.kind \in {"BatchSetPetLocations", "BatchDeviceControl"}
    THEN "Success"
    ELSE IF answer.ok THEN "Success"
         ELSE IF is_retryable_error(answer.error) THEN "Retry"
              ELSE "Fail"

\* OfflineManager::synchronize_when_online.  The remote calls it makes are
\* the probe, then one call for each entry of the queue.
synchronize_when_online ==
    /\ UNCHANGED cache_vars
    /\ \E loaded \in {load_queue(queue_file)} :
           IF ~loaded.ok
           THEN /\ is_empty
                /\ mlast' = ManagerCall("synchronize_when_online", <<>>, <<>>,
                                        FALSE, "SystemError")
           ELSE IF loaded.queue = <<>>
           THEN /\ is_empty
                /\ mlast' = ManagerCall("synchronize_when_online", <<>>, <<>>,
                                        TRUE, None)
           ELSE \E probe \in ProbeAnswers :
                IF ~check_connectivity(probe)
                THEN /\ is_empty
                     /\ mlast' = ManagerCall("synchronize_when_online", <<>>,
                                             <<probe>>, TRUE, None)
                ELSE \E answers \in [1..Len(loaded.queue) -> ReplayAnswers] :
                     /\ synchronize_with(
                            loaded,
                            [i \in 1..Len(loaded.queue) |->
                                executor(loaded.queue[i].operation, answers[i])])
                     /\ mlast' = ManagerCall("synchronize_when_online", <<>>,
                                             <<probe>> \o answers, last'.ok,
                                             Some(last'.ret))

\* The reconciliation, and two single writes to fill the queue: one for a
\* pet, one for a device.
NextSync ==
    \/ set_pet_location(1, LOCATION_INSIDE) /\ UNCHANGED rest_vars
    \/ set_device_lock_state(5, LOCK_STATE_LOCKED) /\ UNCHANGED rest_vars
    \/ synchronize_when_online /\ UNCHANGED rest_vars

SpecSync == Init /\ [][NextSync]_vars

---------------------------------------------------------------------------
\* What the claims about the reconciliation speak of.

\* The last call is a reconciliation; it replayed the queue (it made remote
\* calls after the probe).
Reconciled == mlast.op = "synchronize_when_online"
Replayed == Reconciled /\ Len(mlast.remote) > 1

\* The probe was made and reports the remote API reachable: it got a
\* response that is a success or an error of the client.
ProbeReachable ==
    /\ mlast.remote # <<>>
    /\ mlast.remote[1].ok
    /\ mlast.remote[1].value \in (200..299) \cup (400..499)

\* The errors of the server: a status 5xx.
ServerError(error) == error.kind = "Status" /\ error.status >= 500

\* C18: errors of the server are transient.  A single write whose remote
\* call fails with a 5xx is enqueued and returns Ok (the queue file
\* loading), and in a replay an entry whose remote call fails with a 5xx is
\* answered Retry.
\* (A 5xx is the error of error_for_status, which is neither is_timeout,
\* is_connect nor is_request: the write returns the error and the replay
\* answers Fail.)
C18_ServerErrorTransient ==
    /\ (SingleWrite /\ RemoteFailed /\ ServerError(mlast.remote[1].error)
           /\ load_queue(mlast.pre_queue).ok) =>
           mlast.ok /\ Len(Persisted) = Len(PersistedBefore) + 1
    /\ Replayed =>
           \A i \in 1..Len(last.loaded) :
               (~mlast.remote[i + 1].ok
                    /\ ServerError(mlast.remote[i + 1].error)) =>
                   last.outcomes[i] = "Retry"

\* C20: synchronize_when_online replays only when the queue is not empty
\* and the probe reports reachable.  When the queue is empty, or the probe
\* reports unreachable, it returns Ok(None), makes no remote call for any
\* entry, and the queue file (entries, order, retry counters) is as before.
C20_ReconciliationGuard ==
    /\ Replayed => PersistedBefore # <<>> /\ ProbeReachable
    /\ (Reconciled /\ load_queue(mlast.pre_queue).ok
           /\ (PersistedBefore = <<>> \/ ~ProbeReachable)) =>
           /\ mlast.ok /\ mlast.ret = None
           /\ Len(mlast.remote) <= 1
           /\ queue_file = mlast.pre_queue

\* The server answers 503 to the probe while two entries are queued, one of
\* them already retried: nothing is replayed.
C20_Witness ==
    /\ Reconciled /\ mlast.ok /\ mlast.ret = None
    /\ mlast.remote = <<RemoteOk(503)>>
    /\ Len(PersistedBefore) = 2
    /\ \E i \in 1..2 : PersistedBefore[i].retry_count > 0
    /\ Persisted = PersistedBefore

---------------------------------------------------------------------------
\* Loading a queue file that is absent or does not parse.

\* The last call is one of the calls that load the queue and return what
\* they found.
Looked == last.op \in {"size", "is_empty", "get_all"}

\* What size, is_empty and get_all return for the empty queue.
EmptyAnswer ==
    CASE last.op = "size" -> 0
      [] last.op = "is_empty" -> TRUE
      [] OTHER -> <<>>

\* The persisted queue is exactly the entry the last enqueue made.
HoldsOnlyTheNewEntry ==
    /\ load_queue(queue_file).ok
    /\ Len(Persisted) = 1
    /\ Persisted[1].id = last.ret
    /\ Persisted[1].operation = last.arg
    /\ Persisted[1].retry_count = 0

\* The calls on a queue file in the state `file` treat it as the empty
\* queue: size, is_empty and get_all return Ok with 0, true and the empty
\* list and leave the file as it was, and enqueue returns Ok and leaves a
\* file holding exactly the new entry.
LoadsAsEmpty(file) ==
    /\ (Looked /\ last.pre_file = file) =>
           last.ok /\ last.ret = EmptyAnswer /\ queue_file = last.pre_file
    /\ (last.op = "enqueue" /\ last.pre_file = file) =>
           last.ok /\ HoldsOnlyTheNewEntry

\* C22 as stated: a missing queue file and a queue file that does not parse
\* are both loaded as the empty queue, without error and without a change
\* of the file, and the next enqueue overwrites the file with a queue of
\* exactly the new entry.
C22_CorruptOrMissingIsEmpty_AsStated ==
    LoadsAsEmpty(MissingFile) /\ LoadsAsEmpty(CorruptFile)

\* C22, amended: so it is for a missing queue file.  On a queue file that
\* does not parse, size, is_empty, get_all and enqueue return the error of
\* load_queue and leave the file as it was.
C22_CorruptOrMissingIsEmpty ==
    /\ LoadsAsEmpty(MissingFile)
    /\ ((Looked \/ last.op = "enqueue") /\ last.pre_file = CorruptFile) =>
           ~last.ok /\ queue_file = CorruptFile

\* An enqueue was refused on a file that does not parse.
C22_Witness ==
    /\ last.op = "enqueue"
    /\ last.pre_file = CorruptFile
    /\ ~last.ok
    /\ queue_file = CorruptFile

---------------------------------------------------------------------------
\* C30: for a synchronize that returned Ok, total_operations is the length
\* of the queue the file held when the call started, it is the sum of
\* successful, failed and retried, and the persisted queue after the call
\* has as many entries as retried.
C30_Tallies ==
    (last.op = "synchronize" /\ last.ok) =>
        /\ last.ret.total_operations = Len(load_queue(last.pre_file).queue)
        /\ last.ret.total_operations =
               last.ret.successful + last.ret.failed + last.ret.retried
        /\ Len(Persisted) = last.ret.retried

\* A synchronize of three entries with one of each tally.
C30_Witness ==
    /\ Synced
    /\ last.ret = SyncResult(3, 1, 1, 1)
    /\ Len(Persisted) = 1

---------------------------------------------------------------------------
\* Replay without new entries: enqueue calls, then synchronize calls, with
\* the number of synchronize calls completed since the last enqueue.

\* Bound: synchronize calls counted after the last enqueue.
MaxSyncs == 5

\* OperationQueue::enqueue; a new entry starts the count again.
replay_enqueue(operation) ==
    /\ enqueue(operation)
    /\ syncs' = 0
    /\ UNCHANGED <<cache_vars, mlast, procs, remote_location>>

\* OperationQueue::synchronize, for every executor; a call that returns Ok
\* is counted.
replay_synchronize ==
    /\ syncs < MaxSyncs
    /\ synchronize
    /\ syncs' = IF last'.ok THEN syncs + 1 ELSE syncs
    /\ UNCHANGED <<cache_vars, mlast, procs, remote_location>>

NextReplay ==
    \/ \E operation \in QueuedOperation : replay_enqueue(operation)
    \/ replay_synchronize

SpecReplay == Init /\ [][NextReplay]_vars

\* C29: whatever the executor answers, the operation of an entry is passed
\* to the executor at most max_retries + 1 times, and once max_retries + 1
\* synchronize calls have completed with no enqueue in between the persisted
\* queue is empty.
C29_BoundedReplay ==
    /\ Synced =>
           \A i \in 1..Len(last.loaded) :
               last.calls[i] <= last.loaded[i].max_retries + 1
    /\ syncs >= DEFAULT_MAX_RETRIES + 1 => Persisted = <<>>

\* The fourth synchronize after the last enqueue made the fourth executor
\* call for an entry and left the queue empty.
C29_Witness ==
    /\ Synced
    /\ syncs = DEFAULT_MAX_RETRIES + 1
    /\ \E i \in 1..Len(last.loaded) :
           last.calls[i] = last.loaded[i].max_retries + 1
    /\ Persisted = <<>>

---------------------------------------------------------------------------
\* Calls on the queue step by step.  enqueue and synchronize suspend at each
\* await: when the file is read, when the executor is called, when the file
\* is written.  Between two steps of a call another process can take steps
\* of its own call on the same file, and the process can stop.
\*
\* `last` is the last of: a load of the file by a call that goes on (op
\* "load_queue"), a call that returned, a process that stopped (op "crash",
\* with the call it was in, the queue that call loaded and the answers the
\* executor had given).  pre_file is the file as it was just before.

\* A process that loaded the queue to enqueue `entry`.
Enqueuing(entry, queue) ==
    [entry |-> entry, queue |-> queue, acc |-> SyncAcc0, outcomes |-> <<>>,
     pc |-> "enqueue", missed |-> {}]

\* A process that loaded the queue to synchronize, after the executor
\* answered `outcomes` for the first entries.
Synchronizing(queue, acc, outcomes, missed) ==
    [entry |-> <<>>, queue |-> queue, acc |-> acc, outcomes |-> outcomes,
     pc |-> "synchronize", missed |-> missed]

\* enqueue up to the return of load_queue().await
enqueue_load(p, operation) ==
    /\ procs[p].pc = "idle"
    /\ next_uuid <= MaxEnqueues
    /\ \E entry \in {QueuedOperationEntry_new(operation, next_uuid, clock)} :
       \E loaded \in {load_queue(queue_file)} :
           /\ next_uuid' = next_uuid + 1
           /\ clock' = clock + 1
           /\ IF loaded.ok
              THEN /\ procs' = [procs EXCEPT
                                  ![p] = Enqueuing(entry, loaded.queue)]
                   /\ last' = Call("load_queue", TRUE, 0, 0, loaded.queue,
                                   <<>>, <<>>)
              ELSE /\ last' = Call("enqueue", FALSE, operation, "SystemError",
                                   <<>>, <<>>, <<>>)
                   /\ UNCHANGED procs
    /\ UNCHANGED <<queue_file, attempts>>

\* Fault variant of pushed: the entry is added to the queue the file holds
\* when it is written.
pushed_on_file(proc) == Append(load_queue(queue_file).queue, proc.entry)

\* queue.push(entry): the list enqueue hands to save_queue.
pushed(proc) == Append(proc.queue, proc.entry)

\* enqueue from queue.push(entry) to its return
enqueue_save(p) ==
    /\ procs[p].pc = "enqueue"
    /\ queue_file' = save_queue(pushed(procs[p]))
    /\ last' = Call("enqueue", TRUE, procs[p].entry.operation,
                    procs[p].entry.id, procs[p].queue, <<>>, <<>>)
    /\ procs' = [q \in Procs |->
                    IF q = p THEN IdleProc
                    ELSE IF procs[q].pc = "idle" THEN procs[q]
                    ELSE [procs[q] EXCEPT
                             !.missed = @ \cup {procs[p].entry.id}]]
    /\ UNCHANGED <<next_uuid, clock, attempts>>

\* synchronize up to the start of the loop
synchronize_load(p) ==
    /\ procs[p].pc = "idle"
    /\ \E loaded \in {load_queue(queue_file)} :
           IF ~loaded.ok
           THEN /\ last' = Call("synchronize", FALSE, 0, "SystemError",
                                <<>>, <<>>, <<>>)
                /\ UNCHANGED procs
           ELSE IF Len(loaded.queue) = 0
           THEN /\ last' = Call("synchronize", TRUE, 0,
                                SyncResult(0, 0, 0, 0), <<>>, <<>>, <<>>)
                /\ UNCHANGED procs
           ELSE /\ procs' = [procs EXCEPT
                               ![p] = Synchronizing(loaded.queue, SyncAcc0,
                                                    <<>>, {})]
                /\ last' = Call("load_queue", TRUE, 0, 0, loaded.queue,
                                <<>>, <<>>)
    /\ UNCHANGED <<queue_file, next_uuid, clock, attempts>>

\* The entries of a synchronize in progress for which the executor has not
\* been called yet.
Unprocessed(proc) == SubSeq(proc.queue, Len(proc.outcomes) + 1, Len(proc.queue))

\* One iteration of the loop: executor(entry.operation.clone()).await and
\* the match on its answer.
synchronize_executor(p, outcome) ==
    /\ procs[p].pc = "synchronize"
    /\ Unprocessed(procs[p]) # <<>>
    /\ procs' = [procs EXCEPT
                    ![p] = Synchronizing(
                               procs[p].queue,
                               SyncEntry(procs[p].acc,
                                         Head(Unprocessed(procs[p])), outcome),
                               Append(procs[p].outcomes, outcome),
                               procs[p].missed)]
    /\ UNCHANGED <<queue_file, next_uuid, clock, attempts, last>>

\* The entries of `queue` whose id is not in `ids`.
RECURSIVE Without(_, _)
Without(queue, ids) ==
    IF queue = <<>> THEN <<>>
    ELSE (IF Head(queue).id \in ids THEN <<>> ELSE <<Head(queue)>>)
         \o Without(Tail(queue), ids)

\* Fault variant of kept: the entries the file holds by now and the call
\* did not load are kept too.
kept_merged(proc) ==
    proc.acc.keep \o Without(load_queue(queue_file).queue, IdsOf(proc.queue))

\* operations_to_keep after the loop: the list synchronize hands to
\* save_queue.
kept(proc) == proc.acc.keep

\* synchronize from the end of the loop to its return
synchronize_save(p) ==
    /\ procs[p].pc = "synchronize"
    /\ Unprocessed(procs[p]) = <<>>
    /\ queue_file' = save_queue(kept(procs[p]))
    /\ last' = Call("synchronize", TRUE, 0,
                    SyncResult(Len(procs[p].queue), procs[p].acc.successful,
                               procs[p].acc.failed, procs[p].acc.retried),
                    procs[p].queue, procs[p].outcomes, <<>>)
    /\ procs' = [procs EXCEPT ![p] = IdleProc]
    /\ UNCHANGED <<next_uuid, clock, attempts>>

\* Fault variant of crash: what synchronize has decided so far is written,
\* with the entries not processed yet.
crash_flushed(p) ==
    /\ procs[p].pc # "idle"
    /\ queue_file' = IF procs[p].pc = "synchronize"
                     THEN save_queue(procs[p].acc.keep
                                     \o Unprocessed(procs[p]))
                     ELSE queue_file
    /\ last' = Call("crash", FALSE, procs[p].pc, 0, procs[p].queue,
                    procs[p].outcomes, <<>>)
    /\ procs' = [procs EXCEPT ![p] = IdleProc]
    /\ UNCHANGED <<next_uuid, clock, attempts>>

\* The process stops inside a call: its locals are lost, the file stays as
\* it is.  The next run of the CLI starts with no call in progress.
crash(p) ==
    /\ procs[p].pc # "idle"
    /\ UNCHANGED queue_file
    /\ last' = Call("crash", FALSE, procs[p].pc, 0, procs[p].queue,
                    procs[p].outcomes, <<>>)
    /\ procs' = [procs EXCEPT ![p] = IdleProc]
    /\ UNCHANGED <<next_uuid, clock, attempts>>

\* One process whose calls can stop half-way, followed by the next run of
\* the CLI on the same file.
NextCrash ==
    \/ (\E operation \in QueuedOperation : enqueue_load(1, operation))
          /\ UNCHANGED <<cache_vars, mlast, syncs, remote_location>>
    \/ enqueue_save(1)
          /\ UNCHANGED <<cache_vars, mlast, syncs, remote_location>>
    \/ synchronize_load(1)
          /\ UNCHANGED <<cache_vars, mlast, syncs, remote_location>>
    \/ (\E outcome \in OperationResult : synchronize_executor(1, outcome))
          /\ UNCHANGED <<cache_vars, mlast, syncs, remote_location>>
    \/ synchronize_save(1)
          /\ UNCHANGED <<cache_vars, mlast, syncs, remote_location>>
    \/ crash(1)
          /\ UNCHANGED <<cache_vars, mlast, syncs, remote_location>>

SpecCrash == Init /\ [][NextCrash]_vars

\* Bounds: enqueue calls and synchronize calls started in a behaviour of
\* SpecRace.
MaxRaceEnqueues == 2
MaxRaceSyncs == 2

\* The operation the processes of SpecRace enqueue (entries differ by their
\* id).
RaceOperations == {SetPetLocation(1, LOCATION_INSIDE)}

\* Two processes whose calls on the same file interleave at every await.
NextRace ==
    \/ (\E p \in Procs : \E operation \in RaceOperations :
            next_uuid <= MaxRaceEnqueues /\ enqueue_load(p, operation))
          /\ UNCHANGED <<cache_vars, mlast, syncs, remote_location>>
    \/ (\E p \in Procs : enqueue_save(p))
          /\ UNCHANGED <<cache_vars, mlast, syncs, remote_location>>
    \/ (\E p \in Procs : syncs < MaxRaceSyncs /\ synchronize_load(p))
          /\ syncs' = syncs + 1
          /\ UNCHANGED <<cache_vars, mlast, remote_location>>
    \/ (\E p \in Procs : \E outcome \in OperationResult :
            synchronize_executor(p, outcome))
          /\ UNCHANGED <<cache_vars, mlast, syncs, remote_location>>
    \/ (\E p \in Procs : synchronize_save(p))
          /\ UNCHANGED <<cache_vars, mlast, syncs, remote_location>>

SpecRace == Init /\ [][NextRace]_vars

---------------------------------------------------------------------------
\* What the claims about calls that stop or interleave speak of.

\* The process stopped during synchronize after the executor had answered
\* for some entries of the loaded queue and before it was called for the
\* others.
CrashedMidDrain ==
    /\ last.op = "crash"
    /\ last.arg = "synchronize"
    /\ Len(last.outcomes) > 0
    /\ Len(last.outcomes) < Len(last.loaded)

\* Positions of the queue loaded by the call that stopped: processed with
\* the answer `outcome`, and not processed.
Processed(outcome) ==
    { i \in 1..Len(last.outcomes) : last.outcomes[i] = outcome }

NotProcessed == (Len(last.outcomes) + 1)..Len(last.loaded)

\* C21 as stated: after a stop in the middle of the loop of synchronize the
\* persisted queue does not hold the entries processed with Success or Fail
\* any more, and holds every entry not processed yet and every entry
\* requeued for retry.
C21_CrashMidDrain_AsStated ==
    CrashedMidDrain =>
        /\ \A i \in Processed("Success") \cup Processed("Fail") :
               last.loaded[i].id \notin IdsOf(Persisted)
        /\ \A i \in NotProcessed : last.loaded[i].id \in IdsOf(Persisted)
        /\ \A i \in Processed("Retry") :
               can_retry(last.loaded[i]) =>
                   last.loaded[i].id \in IdsOf(Persisted)

\* C21, amended: synchronize writes the file once, after the loop, so after
\* a stop in the middle of the loop the persisted queue is the queue as
\* synchronize loaded it: every entry, processed or not, with its
\* retry_count as it was.
C21_CrashMidDrain ==
    CrashedMidDrain => Persisted = last.loaded

\* Of three entries the first was answered Success, the second Retry and
\* the third not processed when the process stopped.
C21_Witness ==
    /\ CrashedMidDrain
    /\ Len(last.loaded) = 3
    /\ last.outcomes = <<"Success", "Retry">>
    /\ Persisted = last.loaded

\* The entries another process wrote to the file between the load and the
\* write of the call that returned last: those the file held just before
\* the write and the call had not loaded.
WrittenMeanwhile ==
    { entry \in { load_queue(last.pre_file).queue[i] :
                      i \in 1..Len(load_queue(last.pre_file).queue) } :
        entry.id \notin IdsOf(last.loaded) }

\* C23: nothing orders the load and the save of two processes on the same
\* queue file, and the last writer wins.  An enqueue that returns Ok leaves
\* a file holding the queue it loaded and its own entry, so that an entry
\* another process enqueued between its load and its save, although that
\* enqueue returned an id without error, is not in the persisted queue.
C23_LastWriterWins ==
    (last.op = "enqueue" /\ last.ok) =>
        /\ Persisted = Append(last.loaded, Persisted[Len(Persisted)])
        /\ Persisted[Len(Persisted)].id = last.ret
        /\ \A entry \in WrittenMeanwhile : entry.id \notin IdsOf(Persisted)

\* Two enqueue calls on an empty queue, no synchronize: both returned an id
\* and the persisted queue holds only the entry of the one that wrote last.
C23_Witness ==
    /\ last.op = "enqueue" /\ last.ok
    /\ syncs = 0
    /\ last.loaded = <<>>
    /\ \E entry \in WrittenMeanwhile : entry.id # last.ret
    /\ IdsOf(Persisted) = {last.ret}
    /\ \A p \in Procs : procs[p].pc = "idle"

\* ---------------------------------------------------------------------
\* C27: an enqueue that completes while a synchronize is in progress
\* (offline_queue.rs:170-238 synchronize, 116-127 enqueue)
\* ---------------------------------------------------------------------

\* The step in which process p's synchronize saves and returns.
SyncReturns(p) ==
    /\ procs[p].pc = "synchronize"
    /\ procs'[p].pc = "idle"
    /\ last'.op = "synchronize"
    /\ last'.ok

\* C27 as stated: an entry whose enqueue completes on the same queue file
\* while a synchronize call is in progress is in the persisted queue after
\* that synchronize call returns.
C27_EnqueueDuringSync_AsStated ==
    [][\A p \in Procs :
          SyncReturns(p) =>
              procs[p].missed \subseteq IdsOf(load_queue(queue_file').queue)
      ]_vars

\* C27: when a synchronize call returns, the persisted queue is the list of
\* the entries it kept out of the queue it loaded, so an entry whose enqueue
\* completed on the same queue file while the call was in progress is not in
\* the persisted queue.
C27_EnqueueDuringSync ==
    [][\A p \in Procs :
          SyncReturns(p) =>
              /\ load_queue(queue_file').queue
                     = SyncLoop(procs[p].queue, procs[p].outcomes, 1,
                                SyncAcc0).keep
              /\ \A id \in procs[p].missed :
                     id \notin IdsOf(load_queue(queue_file').queue)
      ]_vars

\* A synchronize has returned with an entry kept while the file, just before
\* its save, held an entry another process had enqueued after the load; that
\* entry is gone.
C27_Witness ==
    /\ Synced
    /\ syncs = 1
    /\ Persisted # <<>>
    /\ WrittenMeanwhile # {}
    /\ \A entry \in WrittenMeanwhile : entry.id \notin IdsOf(Persisted)

---------------------------------------------------------------------------
\* The cache directory: clear_expired, get_stats and storage errors
\* (src/src/cache.rs:159-326).

\* A cache file that exists and cannot be read (permission denied):
\* read_to_string fails, so read_cache_file returns Err as it does for a
\* file that does not deserialise.
UnreadableCacheFile == [kind |-> "unreadable", doc |-> <<>>]

\* What the storage does to a write: it succeeds, or it fails and leaves
\* the file as it was (permission denied), or it fails after truncating the
\* file (disk full).
StorageOutcomes == {"written", "denied", "full"}

\* CacheManager::is_expired(key), on the file of that key
CacheManager_is_expired(file, now_) ==
    IF file.kind = "missing" THEN TRUE
    ELSE IF read_cache_file(file).ok
         THEN is_expired(read_cache_file(file).cached, now_)
         ELSE TRUE

\* The keys of the *.json files in the cache directory.
DirEntries(files) == { key \in CacheKeys : files[key].kind # "missing" }

\* Fault variant of clear_expired: every file is removed, as by clear_all.
clear_expired_all(files, now_) == [key \in CacheKeys |-> NoCacheFile]

\* clear_expired: the directory it leaves.
clear_expired(files, now_) ==
    [key \in CacheKeys |->
        IF key \in DirEntries(files) /\ CacheManager_is_expired(files[key], now_)
        THEN NoCacheFile
        ELSE files[key]]

\* get_stats: CacheStats without total_size (the model gives files no
\* length).
get_stats(files, now_) ==
    [total_files |-> Cardinality(DirEntries(files)),
     expired_files |->
         Cardinality({ key \in DirEntries(files) :
                         CacheManager_is_expired(files[key], now_) })]

\* Fault variant of store_cached_data: a failed write is answered Ok.
store_cached_data_swallow(file, cached, storage) ==
    [file |-> IF storage = "written" THEN store_cached_data(cached)
              ELSE IF storage = "denied" THEN file
              ELSE CorruptCacheFile,
     ok |-> TRUE]

\* store_cached_data on storage that can fail: the file it leaves and
\* whether it returns Ok.
store_cached_data_on(file, cached, storage) ==
    [file |-> IF storage = "written" THEN store_cached_data(cached)
              ELSE IF storage = "denied" THEN file
              ELSE CorruptCacheFile,
     ok |-> storage = "written"]

\* CacheManager::cache_pets, cache_devices on storage that can fail
CacheManager_cache_on(key, data, storage) ==
    /\ UNCHANGED <<utc_now, ttl, queue_vars>>
    /\ \E stored \in {store_cached_data_on(
                          cache[key], CachedData_new(data, ttl, utc_now),
                          storage)} :
           /\ cache' = [cache EXCEPT ![key] = stored.file]
           /\ mlast' = ManagerCall("CacheManager_cache", <<key, data, storage>>,
                                   <<>>, stored.ok,
                                   IF stored.ok THEN <<>> ELSE "CacheError")

\* CacheManager::clear_expired
CacheManager_clear_expired ==
    /\ UNCHANGED <<utc_now, ttl, queue_vars>>
    /\ cache' = clear_expired(cache, utc_now)
    /\ mlast' = ManagerCall("clear_expired", <<>>, <<>>, TRUE, <<>>)

\* CacheManager::get_stats
CacheManager_get_stats ==
    /\ UNCHANGED <<cache, utc_now, ttl, queue_vars>>
    /\ mlast' = ManagerCall("get_stats", <<>>, <<>>, TRUE,
                            get_stats(cache, utc_now))

\* A cache directory as CacheManager::new can find it: each file absent,
\* left unparsable by an earlier run, or not readable by this user.
InitStore ==
    /\ cache \in [CacheKeys ->
                    {NoCacheFile, CorruptCacheFile, UnreadableCacheFile}]
    /\ utc_now = 0
    /\ ttl \in 1..MaxTtl
    /\ mlast = NoManagerCall
    /\ queue_file = MissingFile
    /\ next_uuid = 1
    /\ clock = 10
    /\ attempts = <<>>
    /\ last = NoCall
    /\ RestIdle

NextStore ==
    \/ (\E key \in CacheKeys : CacheManager_get(key)) /\ UNCHANGED rest_vars
    \/ (\E key \in CacheKeys : \E data \in Payloads :
        \E storage \in StorageOutcomes :
            CacheManager_cache_on(key, data, storage)) /\ UNCHANGED rest_vars
    \/ CacheManager_clear_expired /\ UNCHANGED rest_vars
    \/ CacheManager_get_stats /\ UNCHANGED rest_vars
    \/ tick /\ UNCHANGED rest_vars

SpecStore == InitStore /\ [][NextStore]_vars

\* ---------------------------------------------------------------------
\* C24: clear_expired
\* ---------------------------------------------------------------------

ClearedExpired == mlast.op = "clear_expired"

\* The key held a cache entry before the call and it was expired at the
\* time of the call: its expires_at was before now.
WasExpired(key) == HeldEntry(key) /\ EntryBefore(key).expires_at < mlast.at

\* C24: clear_expired removes exactly the cache entries whose expires_at is
\* before now: after it returns no expired entry remains in the cache
\* directory (get_stats reports expired_files = 0), and every entry that is
\* not expired is still present with its data and timestamps unchanged.
C24_ClearExpired ==
    ClearedExpired =>
        /\ mlast.ok
        /\ \A key \in CacheKeys :
               /\ WasExpired(key) => cache[key] = NoCacheFile
               /\ (HeldEntry(key) /\ ~WasExpired(key)) =>
                      cache[key] = mlast.pre_cache[key]
               /\ cache[key].kind = "json" => HeldEntry(key)
        /\ get_stats(cache, mlast.done).expired_files = 0

\* clear_expired has run on a directory that held an expired entry and an
\* entry at its expiry time, not yet expired: the first is gone, the second
\* is there.
C24_Witness ==
    /\ ClearedExpired
    /\ \E key \in CacheKeys : WasExpired(key) /\ cache[key] = NoCacheFile
    /\ \E key \in CacheKeys :
           /\ HeldEntry(key)
           /\ EntryBefore(key).expires_at = mlast.at
           /\ cache[key] = mlast.pre_cache[key]

\* ---------------------------------------------------------------------
\* C25: failure semantics of the cache
\* ---------------------------------------------------------------------

CacheRead == mlast.op = "CacheManager_get"
CacheWrite == mlast.op = "CacheManager_cache"

\* The read found the file of its key present and unreadable.
ReadStorageError == CacheRead /\ mlast.pre_cache[mlast.arg] = UnreadableCacheFile

\* The write was refused by the storage.
WriteStorageError == CacheWrite /\ mlast.arg[3] # "written"

\* The read found no file for its key.
ReadAbsent == CacheRead /\ mlast.pre_cache[mlast.arg] = NoCacheFile

---------------------------------------------------------------------------
\* Reconciliation with the remote calls it makes
\* (src/src/offline_manager.rs:279-371, src/src/api/client.rs:1000-1060).

\* Bound: the writes the remote API applies for one pet.
MaxApplied == 3

IsBatch(operation) ==
    operation.kind \in {"BatchSetPetLocations", "BatchDeviceControl"}

\* The remote API applies a write to the location of a pet.
Log(applied, pet_id, location, id) ==
    [applied EXCEPT ![pet_id] = Append(@, <<location, id>>)]

\* The loop of Client::batch_set_pet_locations: set_pet_location for each
\* update, in request order; the remote API applies those it answers Ok.
RECURSIVE AppliedItems(_, _, _, _, _)
AppliedItems(applied, updates, answers, id, i) ==
    IF i > Len(updates) THEN applied
    ELSE AppliedItems(
             IF answers[i].ok
             THEN Log(applied, updates[i].pet_id, updates[i].location, id)
             ELSE applied,
             updates, answers, id, i + 1)

\* The location updates the executor sends for an operation.
UpdatesOf(operation) ==
    IF operation.kind = "SetPetLocation"
    THEN <<PetLocationUpdate(operation.pet_id, operation.location)>>
    ELSE IF operation.kind = "BatchSetPetLocations" THEN operation.updates
    ELSE <<>>

\* Fault variant of AppliedEntries: an entry for a pet that an earlier
\* entry of this replay has written is skipped.
RECURSIVE AppliedEntries_once(_, _, _, _)
AppliedEntries_once(applied, queue, answers, i) ==
    IF i > Len(queue) THEN applied
    ELSE AppliedEntries_once(
             IF \E j \in 1..(i - 1) :
                    /\ UpdatesOf(queue[j].operation) # <<>>
                    /\ UpdatesOf(queue[i].operation) # <<>>
                    /\ UpdatesOf(queue[j].operation)[1].pet_id
                           = UpdatesOf(queue[i].operation)[1].pet_id
                    /\ answers[j][1].ok
             THEN applied
             ELSE AppliedItems(applied, UpdatesOf(queue[i].operation),
                               answers[i], queue[i].id, 1),
             queue, answers, i + 1)

\* The loop of OperationQueue::synchronize with the executor of
\* synchronize_when_online: the entries are sent in queue order.
RECURSIVE AppliedEntries(_, _, _, _)
AppliedEntries(applied, queue, answers, i) ==
    IF i > Len(queue) THEN applied
    ELSE AppliedEntries(
             AppliedItems(applied, UpdatesOf(queue[i].operation), answers[i],
                          queue[i].id, 1),
             queue, answers, i + 1)

\* What the remote API can answer to the calls the executor makes for an
\* entry: one call for a single operation, one for each item of a batch.
EntryAnswers(operation) ==
    IF IsBatch(operation)
    THEN [1..Len(ItemsOf(operation)) -> ItemAnswers]
    ELSE [1..1 -> ReplayAnswers]

AllAnswers(queue) ==
    { answers \in [1..Len(queue) ->
                      UNION { EntryAnswers(queue[i].operation) :
                                  i \in 1..Len(queue) }] :
        \A i \in 1..Len(queue) : answers[i] \in EntryAnswers(queue[i].operation) }

\* The executor closure with the calls it makes: for a batch entry the
\* batch call of the client, for a single one the remote call.
executor_calls(operation, answers) ==
    IF IsBatch(operation)
    THEN LET result == Client_batch(IF operation.kind = "BatchSetPetLocations"
                                    THEN "pets" ELSE "devices",
                                    ItemsOf(operation), answers)
         IN  IF result.ok THEN "Success"
             ELSE IF is_retryable_error(result.error) THEN "Retry"
                  ELSE "Fail"
    ELSE executor(operation, answers[1])

\* OfflineManager::synchronize_when_online with the calls the remote API
\* gets: the probe, then the calls of the executor for each entry.
synchronize_when_online_calls ==
    /\ UNCHANGED <<cache_vars, procs, syncs>>
    /\ \E loaded \in {load_queue(queue_file)} :
           IF ~loaded.ok
           THEN /\ is_empty
                /\ mlast' = ManagerCall("synchronize_when_online", <<>>, <<>>,
                                        FALSE, "SystemError")
                /\ UNCHANGED remote_location
           ELSE IF loaded.queue = <<>>
           THEN /\ is_empty
                /\ mlast' = ManagerCall("synchronize_when_online", <<>>, <<>>,
                                        TRUE, None)
                /\ UNCHANGED remote_location
           ELSE \E probe \in ProbeAnswers :
                IF ~check_connectivity(probe)
                THEN /\ is_empty
                     /\ mlast' = ManagerCall("synchronize_when_online", <<>>,
                                             <<probe>>, TRUE, None)
                     /\ UNCHANGED remote_location
                ELSE \E answers \in AllAnswers(loaded.queue) :
                     /\ synchronize_with(
                            loaded,
                            [i \in 1..Len(loaded.queue) |->
                                executor_calls(loaded.queue[i].operation,
                                               answers[i])])
                     /\ mlast' = ManagerCall("synchronize_when_online", <<>>,
                                             <<probe>> \o answers, last'.ok,
                                             Some(last'.ret))
                     /\ remote_location' =
                            AppliedEntries(remote_location, loaded.queue,
                                           answers, 1)

\* OfflineManager::set_pet_location with the remote API applying the write
\* it answers Ok.
set_pet_location_applied(pet_id, location) ==
    /\ Len(remote_location[pet_id]) < MaxApplied
    /\ set_pet_location(pet_id, location)
    /\ remote_location' =
           IF mlast'.remote[1].ok
           THEN Log(remote_location, pet_id, location, 0)
           ELSE remote_location
    /\ UNCHANGED <<procs, syncs>>

\* OfflineManager::batch_set_pet_locations with the remote API applying the
\* items it answers Ok.
batch_set_pet_locations_applied(updates) ==
    /\ \A pet_id \in PetIds :
           Len(remote_location[pet_id]) + Len(updates) <= MaxApplied
    /\ batch_set_pet_locations(updates)
    /\ remote_location' =
           AppliedItems(remote_location, updates, mlast'.remote, 0, 1)
    /\ UNCHANGED <<procs, syncs>>

\* Writes of the location of one pet, and the reconciliation.
NextStale ==
    \/ \E location \in Locations : set_pet_location_applied(1, location)
    \/ synchronize_when_online_calls

SpecStale == Init /\ [][NextStale]_vars

\* The batch requests made: the location of two pets, the lock of one
\* device twice.
ReplayedUpdates ==
    { <<PetLocationUpdate(1, LOCATION_OUTSIDE),
        PetLocationUpdate(2, LOCATION_INSIDE)>> }
ReplayedCommands ==
    { <<DeviceCommand(5, SetLockState(LOCK_STATE_LOCKED)),
        DeviceCommand(5, SetLockState(LOCK_STATE_UNLOCKED))>> }

\* Batch writes, and the reconciliation.
NextBatchReplay ==
    \/ \E updates \in ReplayedUpdates :
           batch_set_pet_locations_applied(updates)
    \/ (\E commands \in ReplayedCommands :
            batch_device_control(commands)) /\ UNCHANGED rest_vars
    \/ synchronize_when_online_calls

SpecBatchReplay == Init /\ [][NextBatchReplay]_vars

\* ---------------------------------------------------------------------
\* C26: no deduplication, FIFO replay
\* ---------------------------------------------------------------------

\* The writes of the replay the remote API answered Ok, as the remote API
\* records them, in queue order.
RECURSIVE WritesOk(_, _, _)
WritesOk(queue, answers, i) ==
    IF i > Len(queue) THEN <<>>
    ELSE (IF answers[i][1].ok
          THEN << <<queue[i].operation.location, queue[i].id>> >>
          ELSE <<>>)
         \o WritesOk(queue, answers, i + 1)

\* The last n elements of a sequence.
Suffix(seq, n) == SubSeq(seq, Len(seq) - n + 1, Len(seq))

\* The answers the entries of the replay got (the probe comes first).
ReplayedAnswers == Tail(mlast.remote)

\* C26: two queued mutations for the same identifier are both kept and both
\* replayed.  A write that is queued adds its entry to the queue whatever
\* the queue holds for the same pet; a replay calls the executor once for
\* each entry, in queue order, so that the remote API applies the writes it
\* answers Ok in queue order, the last of them being the value it ends
\* with.
C26_NoDedupFifo ==
    /\ (SingleWrite /\ RemoteFailed /\ mlast.ok) =>
           /\ Len(Persisted) = Len(PersistedBefore) + 1
           /\ SubSeq(Persisted, 1, Len(PersistedBefore)) = PersistedBefore
           /\ Persisted[Len(Persisted)].operation
                  = SetPetLocation(mlast.arg[1], mlast.arg[2])
    /\ Replayed =>
           /\ Len(ReplayedAnswers) = Len(last.loaded)
           /\ \A i \in 1..Len(last.loaded) :
                  /\ Len(ReplayedAnswers[i]) = 1
                  /\ last.outcomes[i] # "Success" <=> ~ReplayedAnswers[i][1].ok
           /\ \A pet_id \in {1} :
                  /\ Len(remote_location[pet_id])
                         >= Len(WritesOk(last.loaded, ReplayedAnswers, 1))
                  /\ Suffix(remote_location[pet_id],
                            Len(WritesOk(last.loaded, ReplayedAnswers, 1)))
                         = WritesOk(last.loaded, ReplayedAnswers, 1)

\* The remote API ends with the stale value: the last write it applied is
\* the replay of the entry queued first, the one before it the replay of the
\* entry queued second, for another location, and the queue is empty.
C26_Witness ==
    /\ Replayed
    /\ Persisted = <<>>
    /\ Len(remote_location[1]) >= 2
    /\ \E k \in {Len(remote_location[1]) - 1} :
           /\ remote_location[1][k][2] = 2
           /\ remote_location[1][k + 1][2] = 1
           /\ remote_location[1][k][1] # remote_location[1][k + 1][1]

\* ---------------------------------------------------------------------
\* C28: replay of a batch entry
\* ---------------------------------------------------------------------

\* Some item of the i-th entry of the replay failed with a transient error.
ItemFailedTransiently(i) ==
    \E j \in 1..Len(ReplayedAnswers[i]) :
        /\ ~ReplayedAnswers[i][j].ok
        /\ Transient(ReplayedAnswers[i][j].error)

\* C28: during reconciliation a queued batch entry is reported Success and
\* dropped only if every item of the batch was applied by the remote client;
\* if some item fails transiently during the replay the entry is kept for
\* retry rather than counted as succeeded.
\* (The executor answers Success whenever the batch call of the client
\* returns Ok, and it returns Ok whatever the items answered.)
C28_BatchReplay ==
    Replayed =>
        \A i \in 1..Len(last.loaded) :
            IsBatch(last.loaded[i].operation) =>
                /\ last.outcomes[i] = "Success" =>
                       \A j \in 1..Len(ReplayedAnswers[i]) :
                           ReplayedAnswers[i][j].ok
                /\ ItemFailedTransiently(i) =>
                       /\ last.outcomes[i] = "Retry"
                       /\ can_retry(last.loaded[i]) =>
                              last.loaded[i].id \in IdsOf(Persisted)

=============================================================================
